---- MODULE Spec2Model ----
(***************************************************************************)
(* fileindexer (src/main.go): the concurrent scan / hash / reconcile       *)
(* engine.  One walker thread visits the tree, dispatches every regular,   *)
(* non-excluded file to a goroutine through a semaphore channel of         *)
(* capacity 8; each goroutine runs processFile against the shared store    *)
(* and appends one row to the CSV ledger under writerMutex.                *)
(***************************************************************************)
EXTENDS Integers, Sequences, FiniteSets, Bags, TLC

(***************************************************************************)
(* Bounds of the model.                                                    *)
(***************************************************************************)
\* longest file content, in bytes
MaxLen == 1
\* program runs (scans) in one behaviour
MaxRuns == 2
\* acts of the environment in one behaviour: failures injected into store
\* round trips and ledger appends, and modifications of files by others
MaxEvents == 1
\* regular files in the tree that saturates the worker pool, beyond capacity
PoolExtra == 1

(***************************************************************************)
(* Program constants.                                                      *)
(***************************************************************************)
\* sem := make(chan struct{}, 8)
SemCap == 8

(***************************************************************************)
(* Strings.  A path is a sequence of characters, so that strings.Contains, *)
(* strings.HasPrefix and path[len(prefix):] are computed, not assumed.     *)
(***************************************************************************)
HasPrefix(s, prefix) ==
    /\ Len(prefix) <= Len(s)
    /\ SubSeq(s, 1, Len(prefix)) = prefix

Contains(s, substr) ==
    \E i \in 0..(Len(s) - Len(substr)) : SubSeq(s, i + 1, i + Len(substr)) = substr

\* path[n:]
SliceFrom(s, n) == SubSeq(s, n + 1, Len(s))

\* fmt.Sprintf("%d", size)
FormatInt(n) == ToString(n)

(***************************************************************************)
(* File contents and their digest.                                         *)
(***************************************************************************)
Bytes == {0, 1}

Contents == UNION {[1..n -> Bytes] : n \in 0..MaxLen}

\* fmt.Sprintf("%x", md5.Sum(content)): injective on the contents of the model
HexDigest(content) == <<"md5">> \o content

\* how a file answers the system calls of processFile
FileModes == {"ok", "noopen", "nostat", "noread"}

NodeKinds == {"regular", "dir", "symlink", "pipe"}

(***************************************************************************)
(* The scanned trees.  A tree is the sequence of nodes in the order        *)
(* filepath.Walk visits them (lexical), each with the os.FileInfo mode     *)
(* and the error Walk hands to the callback.                               *)
(***************************************************************************)
Node(path, kind, walkErr) == [path |-> path, kind |-> kind, walkErr |-> walkErr]

Config(directory, prefix, excludeStrings) ==
    [Directory |-> directory, Prefix |-> prefix, ExcludeStrings |-> excludeStrings]

DirM == <<"/", "m">>
FileA == <<"/", "m", "/", "a">>
FileB == <<"/", "m", "/", "b">>
LinkL == <<"/", "m", "/", "l">>
FileX == <<"/", "m", "/", "x">>
FileZ == <<"/", "m", "/", "z">>

\* --directory /m --prefix /m, no --exclude: two regular files
TreeTwo ==
    [cfg   |-> Config(DirM, DirM, <<(<<>>)>>),
     nodes |-> <<Node(DirM, "dir", FALSE),
                 Node(FileA, "regular", FALSE),
                 Node(FileB, "regular", FALSE)>>]

\* --directory /m --exclude x, no prefix: one regular file among nodes that
\* are skipped (a symlink, an excluded file, a node Walk could not access)
TreeMixed ==
    [cfg   |-> Config(DirM, <<>>, <<(<<"x">>)>>),
     nodes |-> <<Node(DirM, "dir", FALSE),
                 Node(FileA, "regular", FALSE),
                 Node(LinkL, "symlink", FALSE),
                 Node(FileX, "regular", FALSE),
                 Node(FileZ, "dir", TRUE)>>]

Trees == {TreeTwo, TreeMixed}

Root == <<"/">>
RootA == <<"/", "a">>
RootB == <<"/", "b">>
RootP == <<"/", "p">>
RootS == <<"/", "s">>

\* --directory / --prefix /m, no --exclude: the prefix covers a part of the
\* tree only, /a and /m/a are two regular files, Walk cannot access /b,
\* /p is a named pipe and /s a symbolic link
TreeOverlap ==
    [cfg   |-> Config(Root, DirM, <<(<<>>)>>),
     nodes |-> <<Node(Root, "dir", FALSE),
                 Node(RootA, "regular", FALSE),
                 Node(RootB, "dir", TRUE),
                 Node(DirM, "dir", FALSE),
                 Node(FileA, "regular", FALSE),
                 Node(RootP, "pipe", FALSE),
                 Node(RootS, "symlink", FALSE)>>]

\* --directory /m when /m does not exist: Walk's Lstat of the root fails and
\* the callback is called once, with the root and that error
TreeMissing ==
    [cfg   |-> Config(DirM, <<>>, <<(<<>>)>>),
     nodes |-> <<Node(DirM, "dir", TRUE)>>]

\* --directory / --prefix /m --exclude ,m: the list is the empty string and
\* "m"; "m" occurs in /m/a inside the prefix only and not in /a
TreeExclude ==
    [cfg   |-> Config(Root, DirM, <<(<<>>), <<"m">>>>),
     nodes |-> <<Node(Root, "dir", FALSE),
                 Node(RootA, "regular", FALSE),
                 Node(DirM, "dir", FALSE),
                 Node(FileA, "regular", FALSE)>>]

EdgeTrees == {TreeOverlap, TreeMissing, TreeExclude}

\* the tree that saturates the pool: SemCap + PoolExtra regular files
PoolNames == <<"a", "b", "c", "d", "e", "f", "g", "h", "i", "j", "k", "l">>

TreePool ==
    [cfg   |-> Config(DirM, DirM, <<(<<>>)>>),
     nodes |-> <<Node(DirM, "dir", FALSE)>> \o
               [i \in 1..(SemCap + PoolExtra) |->
                   Node(DirM \o <<"/", PoolNames[i]>>, "regular", FALSE)]]

RegularPaths(tree) ==
    {tree.nodes[i].path : i \in {j \in 1..Len(tree.nodes) : tree.nodes[j].kind = "regular"}}

(***************************************************************************)
(* State.                                                                  *)
(***************************************************************************)
VARIABLES
    cfg,          \* Config, read-only after parseFlags
    nodes,        \* the tree as filepath.Walk will visit it
    fs,           \* physical path -> [content, mtime, mode]
    db,           \* table file_hashes: filepath -> [hash, size, file_timestamp, hash_calculated_timestamp]
    now,          \* time.Now()
    faults,       \* failures the environment has injected
    mods,         \* modifications other processes have made
    run,          \* which run of the program this is
    mainPc,       \* where main / processDirectory stands
    walkIdx,      \* the node filepath.Walk hands to the callback next
    pending,      \* <<path, storedPath>> the callback is about to send on sem, or <<>>
    sem,          \* tokens in the channel sem
    wg,           \* counter of the sync.WaitGroup
    writerMutex,  \* TRUE while locked
    writer,       \* rows in the csv.Writer's buffer, not yet in the file
    csvFile,      \* run -> rows in the output file of that run
    workers,      \* node index -> the goroutine dispatched for it
    dbAtReturn,   \* run -> the table when processDirectory returned (0: at first)
    changedInRun  \* whether another process changed the tree while this run read it

vars == <<cfg, nodes, fs, db, now, faults, mods, run, mainPc, walkIdx, pending,
          sem, wg, writerMutex, writer, csvFile, workers, dbAtReturn, changedInRun>>


(***************************************************************************)
(* The pure parts of the code.                                             *)
(***************************************************************************)
NoErr == <<>>

\* mutant: an exclusion string must be the whole path
ExcludedWholePath(c, path) ==
    \E k \in 1..Len(c.ExcludeStrings) :
        /\ c.ExcludeStrings[k] # <<>>
        /\ path = c.ExcludeStrings[k]

\* mutant: the empty string is tested like any other
ExcludedAlsoByEmpty(c, path) ==
    \E k \in 1..Len(c.ExcludeStrings) : Contains(path, c.ExcludeStrings[k])

\* mutant: the exclusion strings are looked for in the logical path
ExcludedLogical(c, path) ==
    \E k \in 1..Len(c.ExcludeStrings) :
        /\ c.ExcludeStrings[k] # <<>>
        /\ Contains(IF c.Prefix # <<>> /\ HasPrefix(path, c.Prefix)
                    THEN SliceFrom(path, Len(c.Prefix))
                    ELSE path,
                    c.ExcludeStrings[k])

\* the walk callback's exclusion loop
Excluded(c, path) ==
    \E k \in 1..Len(c.ExcludeStrings) :
        /\ c.ExcludeStrings[k] # <<>>
        /\ Contains(path, c.ExcludeStrings[k])

\* mutant: len(cfg.Prefix) characters are cut off whenever a prefix is configured
StoredPathSliced(c, path) ==
    IF c.Prefix # <<>> THEN SliceFrom(path, Len(c.Prefix)) ELSE path

\* the walk callback's storedPath
StoredPath(c, path) ==
    IF c.Prefix # <<>> /\ HasPrefix(path, c.Prefix)
    THEN SliceFrom(path, Len(c.Prefix))
    ELSE path

\* os.Open(path): whether it fails
OpenFails(f) == f.mode = "noopen"

\* getFileMetadata: file.Stat() of the open file
getFileMetadata(f) ==
    IF f.mode = "nostat"
    THEN [size |-> 0, modTime |-> 0, err |-> <<"stat">>]
    ELSE [size |-> Len(f.content), modTime |-> f.mtime, err |-> NoErr]

\* hashFile: seek to 0, copy the whole file into the hasher
hashFile(f) ==
    IF f.mode = "noread"
    THEN [hash |-> <<>>, err |-> <<"read">>]
    ELSE [hash |-> HexDigest(f.content), err |-> NoErr]

\* getDatabaseRecord, when the query itself succeeds
getDatabaseRecord(table, storedPath) ==
    IF storedPath \in DOMAIN table
    THEN [dbHash |-> table[storedPath].hash, dbSize |-> table[storedPath].size,
          err |-> NoErr]
    ELSE [dbHash |-> <<>>, dbSize |-> 0, err |-> <<"sql.ErrNoRows">>]

DbRow(hash, size, fileTimestamp, t) ==
    [hash |-> hash, size |-> size, file_timestamp |-> fileTimestamp,
     hash_calculated_timestamp |-> t]

\* mutant: the INSERT binds the size column to nothing
InsertRowNoSize(table, storedPath, hash, size, fileTimestamp, t) ==
    table @@ (storedPath :> DbRow(hash, 0, fileTimestamp, t))

\* INSERT INTO file_hashes ..., when filepath is not in the table
InsertRow(table, storedPath, hash, size, fileTimestamp, t) ==
    table @@ (storedPath :> DbRow(hash, size, fileTimestamp, t))

\* mutant: the UPDATE sets the hash and the timestamps, not the size
UpdateRowHashOnly(table, storedPath, hash, size, fileTimestamp, t) ==
    [k \in DOMAIN table |->
        IF k = storedPath THEN DbRow(hash, table[k].size, fileTimestamp, t) ELSE table[k]]

\* mutant: the record is deleted, to be inserted anew
UpdateRowDeletes(table, storedPath, hash, size, fileTimestamp, t) ==
    [k \in DOMAIN table \ {storedPath} |-> table[k]]

\* mutant: the UPDATE has no WHERE clause
UpdateRowNoWhere(table, storedPath, hash, size, fileTimestamp, t) ==
    [k \in DOMAIN table |-> DbRow(hash, size, fileTimestamp, t)]

\* UPDATE file_hashes SET ... WHERE filepath = storedPath
UpdateRow(table, storedPath, hash, size, fileTimestamp, t) ==
    [k \in DOMAIN table |->
        IF k = storedPath THEN DbRow(hash, size, fileTimestamp, t) ELSE table[k]]

\* the errors processFile wraps
ErrOpen(path) == <<"failed to open file", path>>
ErrMetadata(path, err) == <<"failed to retrieve metadata for file", path>> \o err
ErrHash(path, err) == <<"failed to hash file", path>> \o err
ErrQuery(storedPath, err) == <<"failed to query database for", storedPath>> \o err
ErrInsert(path) == <<"failed to insert record for file", path>>
ErrUpdate(path) == <<"failed to update record for file", path>>

\* a goroutine and the locals of its processFile call
NewWorker(path, storedPath) ==
    [pc |-> "start", path |-> path, storedPath |-> storedPath,
     size |-> 0, fileTimestamp |-> 0, dbSize |-> 0,
     hash |-> <<>>, status |-> <<>>, err |-> NoErr, writes |-> 0,
     writeErr |-> FALSE]

\* processFile's error returns: "", -1, "", err
ReturnErr(w, e) ==
    [w EXCEPT !.pc = "returned", !.hash = <<>>, !.size = -1, !.status = <<>>, !.err = e]

\* processFile's normal returns: hash, size, status, nil
ReturnOk(w, hash, size, status) ==
    [w EXCEPT !.pc = "returned", !.hash = hash, !.size = size, !.status = status,
              !.err = NoErr]

\* mutant: the status of the error branch is the bare error
CsvRowBareError(w) ==
    IF w.err # NoErr
    THEN <<w.storedPath, <<>>, "-1", w.err>>
    ELSE <<w.storedPath, w.hash, FormatInt(w.size), w.status>>

\* the record the goroutine hands to writer.Write
CsvRow(w) ==
    IF w.err # NoErr
    THEN <<w.storedPath, <<>>, "-1", <<"error: ">> \o w.err>>
    ELSE <<w.storedPath, w.hash, FormatInt(w.size), w.status>>

\* mutant: the error branch returns before it writes its row
AppendedUnlessError(buffer, w) ==
    IF w.err # NoErr THEN buffer ELSE buffer (+) SetToBag({CsvRow(w)})

\* writer.Write(row) in the error branch and in the normal branch
Appended(buffer, w) == buffer (+) SetToBag({CsvRow(w)})

CsvHeader == << <<"filepath">>, <<"hash">>, "size", <<"status">> >>

\* time.Now() after a second has passed; the clock of the model stops at MaxNow
MaxNow == MaxRuns + MaxEvents
Later(t) == IF t < MaxNow THEN t + 1 ELSE t

(***************************************************************************)
(* Initial states: the program has parsed its flags and opened the store;  *)
(* the table holds a record of a file outside the scanned tree and, after  *)
(* an earlier scan, a record of a file of the tree.                        *)
(***************************************************************************)
\* what every file of the tree holds before anyone rewrites it
InitialContent == <<0>>

\* the filepath of a record that no scan of these trees may write: no file
\* of TreeTwo, TreeOverlap or TreePool has this logical path, and in
\* TreeMixed it is the path of the excluded file
OutsidePath == FileX

\* every file of the tree starts with the same content and the same permissions
FileState(c, m) == [content |-> c, mtime |-> 0, mode |-> m]

InitialTable == (OutsidePath :> DbRow(HexDigest(<<0>>), 1, 0, 0))

\* the same table after an earlier scan recorded FileA, which was empty then
StaleTable(tree) ==
    InitialTable @@ (StoredPath(tree.cfg, FileA) :> DbRow(HexDigest(<<>>), 0, 0, 0))

InitEngine(table) ==
    /\ now = 1
    /\ run = 1
    /\ mainPc = "start"
    /\ walkIdx = 1
    /\ pending = <<>>
    /\ sem = 0
    /\ wg = 0
    /\ writerMutex = FALSE
    /\ writer = EmptyBag
    /\ csvFile = [r \in 1..MaxRuns |-> EmptyBag]
    /\ workers = <<>>
    /\ dbAtReturn = [r \in 0..MaxRuns |-> IF r = 0 THEN table ELSE <<>>]
    /\ changedInRun = FALSE
    /\ db = table

InitTree(tree, contents, modes) ==
    /\ cfg = tree.cfg
    /\ nodes = tree.nodes
    /\ \E c \in contents, m \in modes :
          fs = [p \in RegularPaths(tree) |-> FileState(c, m)]

Init ==
    /\ \E tree \in Trees :
          /\ InitTree(tree, {InitialContent}, {"ok"})
          /\ \E table \in {InitialTable, StaleTable(tree)} : InitEngine(table)
    /\ faults = 0
    /\ mods = 0

(***************************************************************************)
(* main and processDirectory.                                              *)
(***************************************************************************)
\* whether the environment may still act
EventsLeft == faults + mods < MaxEvents

\* main up to the call of processDirectory, and its sem and wg
Startup ==
    /\ mainPc = "start"
    /\ mainPc' = "walking"
    /\ writer' = SetToBag({CsvHeader})
    /\ UNCHANGED <<cfg, nodes, fs, db, now, faults, mods, run, walkIdx, pending,
                   sem, wg, writerMutex, csvFile, workers, dbAtReturn, changedInRun>>

\* mutant: the failure is logged with log.Printf and main goes on
FatalLogged == "walking"

\* log.Fatalf: the process exits at once, no deferred call runs
Fatalf == "aborted"

\* main: db.Exec(createTableQuery) fails (the store cannot be reached)
CreateTableFails ==
    /\ mainPc = "start"
    /\ EventsLeft
    /\ faults' = faults + 1
    /\ mainPc' = Fatalf
    /\ UNCHANGED <<cfg, nodes, fs, db, now, mods, run, walkIdx, pending, sem, wg,
                   writerMutex, writer, csvFile, workers, dbAtReturn, changedInRun>>

\* mutant: the callback returns walkErr, and filepath.Walk stops
AbortsWalk(idx) == Len(nodes) + 1

\* the callback logs walkErr and returns nil: Walk goes on with the next node
AfterWalkError(idx) == idx + 1

\* mutant: the callback tests !info.IsDir()
IsNotDir(node) == node.kind # "dir"

\* info.Mode().IsRegular()
IsRegular(node) == node.kind = "regular"

\* the walk callback up to the send on sem
WalkVisit ==
    /\ mainPc = "walking"
    /\ pending = <<>>
    /\ walkIdx <= Len(nodes)
    /\ LET node == nodes[walkIdx] IN
       IF \/ node.walkErr
          \/ ~IsRegular(node)
          \/ Excluded(cfg, node.path)
       THEN /\ walkIdx' = IF node.walkErr THEN AfterWalkError(walkIdx) ELSE walkIdx + 1
            /\ pending' = pending
       ELSE /\ walkIdx' = walkIdx
            /\ pending' = <<node.path, StoredPath(cfg, node.path)>>
    /\ UNCHANGED <<cfg, nodes, fs, db, now, faults, mods, run, mainPc,
                   sem, wg, writerMutex, writer, csvFile, workers, dbAtReturn, changedInRun>>

\* mutant: the channel has room for one token more
SemHasRoomOffByOne == sem <= SemCap

\* mutant: the send never blocks
SemNeverFull == TRUE

\* whether the send on sem can proceed
SemHasRoom == sem < SemCap

\* sem <- struct{}{}; wg.Add(1); go func(path, storedPath); return nil
Dispatch ==
    /\ mainPc = "walking"
    /\ pending # <<>>
    /\ SemHasRoom
    /\ sem' = sem + 1
    /\ wg' = wg + 1
    /\ workers' = workers @@ (walkIdx :> NewWorker(pending[1], pending[2]))
    /\ pending' = <<>>
    /\ walkIdx' = walkIdx + 1
    /\ UNCHANGED <<cfg, nodes, fs, db, now, faults, mods, run, mainPc,
                   writerMutex, writer, csvFile, dbAtReturn, changedInRun>>

\* filepath.Walk returns (its error is always nil: the callback returns nil)
WalkReturn ==
    /\ mainPc = "walking"
    /\ pending = <<>>
    /\ walkIdx > Len(nodes)
    /\ mainPc' = "waiting"
    /\ UNCHANGED <<cfg, nodes, fs, db, now, faults, mods, run, walkIdx, pending,
                   sem, wg, writerMutex, writer, csvFile, workers, dbAtReturn, changedInRun>>

\* mutant: processDirectory does not wait for its goroutines
WaitOverAtOnce == TRUE

\* whether wg.Wait() can return
WaitOver == wg = 0

\* wg.Wait() returns and processDirectory with it
WaitReturn ==
    /\ mainPc = "waiting"
    /\ WaitOver
    /\ mainPc' = "returned"
    /\ dbAtReturn' = [dbAtReturn EXCEPT ![run] = db]
    /\ UNCHANGED <<cfg, nodes, fs, db, now, faults, mods, run, walkIdx, pending,
                   sem, wg, writerMutex, writer, csvFile, workers, changedInRun>>

\* log.Printf("MD5 hash calculation and storage completed. ...")
LogCompleted ==
    /\ mainPc = "returned"
    /\ mainPc' = "completed"
    /\ UNCHANGED <<cfg, nodes, fs, db, now, faults, mods, run, walkIdx, pending,
                   sem, wg, writerMutex, writer, csvFile, workers, dbAtReturn, changedInRun>>

\* main's deferred calls: writer.Flush(), outputFile.Close(), db.Close()
Exit ==
    /\ mainPc = "completed"
    /\ mainPc' = "exited"
    /\ csvFile' = [csvFile EXCEPT ![run] = @ (+) writer]
    /\ writer' = EmptyBag
    /\ UNCHANGED <<cfg, nodes, fs, db, now, faults, mods, run, walkIdx, pending,
                   sem, wg, writerMutex, workers, dbAtReturn, changedInRun>>

\* the program is run again, later, on the same tree and store
StartRun ==
    /\ mainPc = "exited"
    /\ run < MaxRuns
    /\ run' = run + 1
    /\ now' = Later(now)
    /\ mainPc' = "start"
    /\ walkIdx' = 1
    /\ pending' = <<>>
    /\ sem' = 0
    /\ wg' = 0
    /\ writerMutex' = FALSE
    /\ writer' = EmptyBag
    /\ workers' = <<>>
    /\ changedInRun' = FALSE
    /\ UNCHANGED <<cfg, nodes, fs, db, faults, mods, csvFile, dbAtReturn>>

(***************************************************************************)
(* The goroutine of one dispatched file, statement by statement.           *)
(***************************************************************************)
At(i, where) == i \in DOMAIN workers /\ workers[i].pc = where

\* processFile: os.Open and getFileMetadata
OpenAndStat(w) ==
    LET f == fs[w.path]
        meta == getFileMetadata(f)
    IN  IF OpenFails(f) THEN ReturnErr(w, ErrOpen(w.path))
        ELSE IF meta.err # NoErr THEN ReturnErr(w, ErrMetadata(w.path, meta.err))
        ELSE [w EXCEPT !.pc = "lookup", !.size = meta.size,
                       !.fileTimestamp = meta.modTime]

ProcessFileOpen(i) ==
    /\ At(i, "start")
    /\ workers' = [workers EXCEPT ![i] = OpenAndStat(@)]
    /\ UNCHANGED <<cfg, nodes, fs, db, now, faults, mods, run, mainPc, walkIdx,
                   pending, sem, wg, writerMutex, writer, csvFile, dbAtReturn, changedInRun>>

\* mutant: any error of the lookup is taken for sql.ErrNoRows
ReconcileErrorAsAbsent(w, rec) ==
    IF rec.err # NoErr THEN [w EXCEPT !.pc = "hashNew"]
    ELSE IF w.size # rec.dbSize
         THEN [w EXCEPT !.pc = "hashChanged", !.dbSize = rec.dbSize]
         ELSE ReturnOk(w, rec.dbHash, rec.dbSize, <<"existing">>)

\* mutant: every file that has a record is hashed again
SizeChangedAlways(size, dbSize) == TRUE

\* whether processFile hashes and updates a file that has a record
SizeChanged(size, dbSize) == size # dbSize

\* mutant: a file that has a record is hashed and updated whatever its size
ReconcileAlwaysRehash(w, rec) ==
    IF rec.err = <<"sql.ErrNoRows">> THEN [w EXCEPT !.pc = "hashNew"]
    ELSE IF rec.err # NoErr THEN ReturnErr(w, ErrQuery(w.storedPath, rec.err))
    ELSE [w EXCEPT !.pc = "hashChanged", !.dbSize = rec.dbSize]

\* processFile: the branch taken on the answer of getDatabaseRecord
Reconcile(w, rec) ==
    IF rec.err = <<"sql.ErrNoRows">> THEN [w EXCEPT !.pc = "hashNew"]
    ELSE IF rec.err # NoErr THEN ReturnErr(w, ErrQuery(w.storedPath, rec.err))
    ELSE IF SizeChanged(w.size, rec.dbSize)
         THEN [w EXCEPT !.pc = "hashChanged", !.dbSize = rec.dbSize]
         ELSE ReturnOk(w, rec.dbHash, rec.dbSize, <<"existing">>)

ProcessFileLookup(i) ==
    /\ At(i, "lookup")
    /\ workers' = [workers EXCEPT ![i] = Reconcile(@, getDatabaseRecord(db, @.storedPath))]
    /\ UNCHANGED <<cfg, nodes, fs, db, now, faults, mods, run, mainPc, walkIdx,
                   pending, sem, wg, writerMutex, writer, csvFile, dbAtReturn, changedInRun>>

\* an error of db.QueryRow(...).Scan other than sql.ErrNoRows
ErrConnection == <<"connection">>

\* getDatabaseRecord fails with an error other than sql.ErrNoRows
ProcessFileLookupError(i) ==
    /\ At(i, "lookup")
    /\ EventsLeft
    /\ faults' = faults + 1
    /\ workers' = [workers EXCEPT ![i] =
                      Reconcile(@, [dbHash |-> <<>>, dbSize |-> 0, err |-> ErrConnection])]
    /\ UNCHANGED <<cfg, nodes, fs, db, now, mods, run, mainPc, walkIdx,
                   pending, sem, wg, writerMutex, writer, csvFile, dbAtReturn, changedInRun>>

\* mutant: a failed read is ignored and the digest of the bytes read so far is kept
HashedPartial(w) ==
    [w EXCEPT !.pc = IF w.pc = "hashNew" THEN "insert" ELSE "update",
              !.hash = HexDigest(<<>>)]

\* mutant: processFile returns the digest without writing the record
HashedWithoutWrite(w) ==
    LET h == hashFile(fs[w.path])
    IN  IF h.err # NoErr THEN ReturnErr(w, ErrHash(w.path, h.err))
        ELSE ReturnOk(w, h.hash, w.size,
                      IF w.pc = "hashNew" THEN <<"new">> ELSE <<"changed">>)

\* processFile: hashFile in either branch
Hashed(w) ==
    LET h == hashFile(fs[w.path])
    IN  IF h.err # NoErr THEN ReturnErr(w, ErrHash(w.path, h.err))
        ELSE [w EXCEPT !.pc = IF w.pc = "hashNew" THEN "insert" ELSE "update",
                       !.hash = h.hash]

ProcessFileHash(i) ==
    /\ i \in DOMAIN workers
    /\ workers[i].pc \in {"hashNew", "hashChanged"}
    /\ workers' = [workers EXCEPT ![i] = Hashed(@)]
    /\ UNCHANGED <<cfg, nodes, fs, db, now, faults, mods, run, mainPc, walkIdx,
                   pending, sem, wg, writerMutex, writer, csvFile, dbAtReturn, changedInRun>>

\* mutant: the table takes an INSERT of a filepath it holds, and keeps its row
InsertAcceptedAlways(table, storedPath) == TRUE

\* filepath TEXT NOT NULL UNIQUE: whether the table takes an INSERT of storedPath
InsertAccepted(table, storedPath) == storedPath \notin DOMAIN table

\* mutant: the write is given up after a failed attempt and reported as an error
AbandonsWrite(w) ==
    ReturnErr(w, IF w.pc = "insert" THEN ErrInsert(w.path) ELSE ErrUpdate(w.path))

\* mutant: each attempt stats the file again and sends the time of the attempt
RetryRestamps(w) == [w EXCEPT !.fileTimestamp = now]

\* mutant: each attempt hashes the open file again, from where the last read ended
RetryRehashes(w) == [w EXCEPT !.hash = HexDigest(<<>>)]

\* for { ... } of insertFileRecord and updateFileRecord after a failed db.Exec
NextAttempt(w) == w

\* insertFileRecord: db.Exec succeeds, return nil; processFile returns "new"
InsertSucceeds(i) ==
    /\ At(i, "insert")
    /\ InsertAccepted(db, workers[i].storedPath)
    /\ LET w == workers[i] IN
       /\ db' = InsertRow(db, w.storedPath, w.hash, w.size, w.fileTimestamp, now)
       /\ workers' = [workers EXCEPT ![i] = ReturnOk(w, w.hash, w.size, <<"new">>)]
    /\ UNCHANGED <<cfg, nodes, fs, now, faults, mods, run, mainPc, walkIdx,
                   pending, sem, wg, writerMutex, writer, csvFile, dbAtReturn, changedInRun>>

\* insertFileRecord: db.Exec fails (a transient failure, or filepath is
\* already in the table), log, time.Sleep(1 * time.Second), next attempt
InsertRetries(i) ==
    /\ At(i, "insert")
    /\ (EventsLeft \/ ~InsertAccepted(db, workers[i].storedPath))
    /\ faults' = IF InsertAccepted(db, workers[i].storedPath) THEN faults + 1 ELSE faults
    /\ now' = Later(now)
    /\ workers' = [workers EXCEPT ![i] = NextAttempt(@)]
    /\ UNCHANGED <<cfg, nodes, fs, db, mods, run, mainPc, walkIdx, pending,
                   sem, wg, writerMutex, writer, csvFile, dbAtReturn, changedInRun>>

\* updateFileRecord: db.Exec succeeds, return nil; processFile returns "changed"
UpdateSucceeds(i) ==
    /\ At(i, "update")
    /\ LET w == workers[i] IN
       /\ db' = UpdateRow(db, w.storedPath, w.hash, w.size, w.fileTimestamp, now)
       /\ workers' = [workers EXCEPT ![i] = ReturnOk(w, w.hash, w.size, <<"changed">>)]
    /\ UNCHANGED <<cfg, nodes, fs, now, faults, mods, run, mainPc, walkIdx,
                   pending, sem, wg, writerMutex, writer, csvFile, dbAtReturn, changedInRun>>

\* updateFileRecord: db.Exec fails, log, time.Sleep(1 * time.Second), next attempt
UpdateRetries(i) ==
    /\ At(i, "update")
    /\ EventsLeft
    /\ faults' = faults + 1
    /\ now' = Later(now)
    /\ workers' = [workers EXCEPT ![i] = NextAttempt(@)]
    /\ UNCHANGED <<cfg, nodes, fs, db, mods, run, mainPc, walkIdx, pending,
                   sem, wg, writerMutex, writer, csvFile, dbAtReturn, changedInRun>>

\* mutant: the goroutines do not take the mutex
MutexNeverHeld == TRUE

\* whether writerMutex.Lock() can proceed
MutexFree == ~writerMutex

\* writerMutex.Lock()
Lock(i) ==
    /\ At(i, "returned")
    /\ MutexFree
    /\ writerMutex' = TRUE
    /\ workers' = [workers EXCEPT ![i].pc = "locked"]
    /\ UNCHANGED <<cfg, nodes, fs, db, now, faults, mods, run, mainPc, walkIdx,
                   pending, sem, wg, writer, csvFile, dbAtReturn, changedInRun>>

\* writer.Write(row) of either branch, when it succeeds
Write(i) ==
    /\ At(i, "locked")
    /\ writer' = Appended(writer, workers[i])
    /\ workers' = [workers EXCEPT ![i].pc = "written", ![i].writes = @ + 1]
    /\ UNCHANGED <<cfg, nodes, fs, db, now, faults, mods, run, mainPc, walkIdx,
                   pending, sem, wg, writerMutex, csvFile, dbAtReturn, changedInRun>>

\* mutant: the goroutine stops at the failed Write (log.Panicf in a
\* goroutine whose deferred calls were dropped)
WriteErrorStops(w) == [w EXCEPT !.pc = "stopped", !.writes = @ + 1, !.writeErr = TRUE]

\* writeErr != nil: log.Printf, and the goroutine goes on to writer.Flush()
WriteErrorLogged(w) == [w EXCEPT !.pc = "written", !.writes = @ + 1, !.writeErr = TRUE]

\* writer.Write(row) returns an error: it is logged, the row is lost
WriteFails(i) ==
    /\ At(i, "locked")
    /\ EventsLeft
    /\ faults' = faults + 1
    /\ workers' = [workers EXCEPT ![i] = WriteErrorLogged(@)]
    /\ UNCHANGED <<cfg, nodes, fs, db, now, mods, run, mainPc, walkIdx,
                   pending, sem, wg, writerMutex, writer, csvFile, dbAtReturn, changedInRun>>

\* writer.Flush()
Flush(i) ==
    /\ At(i, "written")
    /\ csvFile' = [csvFile EXCEPT ![run] = @ (+) writer]
    /\ writer' = EmptyBag
    /\ workers' = [workers EXCEPT ![i].pc = "flushed"]
    /\ UNCHANGED <<cfg, nodes, fs, db, now, faults, mods, run, mainPc, walkIdx,
                   pending, sem, wg, writerMutex, dbAtReturn, changedInRun>>

\* mutant: the goroutine returns without unlocking the mutex
StaysLocked == TRUE

\* the state of writerMutex after Unlock()
Unlocked == FALSE

\* deferred: writerMutex.Unlock()
Unlock(i) ==
    /\ At(i, "flushed")
    /\ writerMutex' = Unlocked
    /\ workers' = [workers EXCEPT ![i].pc = "unlocked"]
    /\ UNCHANGED <<cfg, nodes, fs, db, now, faults, mods, run, mainPc, walkIdx,
                   pending, sem, wg, writer, csvFile, dbAtReturn, changedInRun>>

\* mutant: the closure is not deferred, it runs as soon as processFile is back
ClosureRunsAtReturn == "returned"

\* where the deferred closure of <-sem and wg.Done() runs: deferred calls
\* run last in first out, so after the deferred writerMutex.Unlock()
DeferredClosureRuns == "unlocked"

\* mutant: the goroutine of a failed processFile keeps its slot
SlotKeptOnError(w, tokens) == IF w.err # NoErr THEN tokens ELSE tokens - 1

\* the tokens in sem after the deferred <-sem of a goroutine: the closure is
\* deferred before processFile is called, so it runs on every return
AfterReceive(w, tokens) == tokens - 1

\* deferred: <-sem
SemReceive(i) ==
    /\ At(i, DeferredClosureRuns)
    /\ sem' = AfterReceive(workers[i], sem)
    /\ workers' = [workers EXCEPT ![i].pc = "released"]
    /\ UNCHANGED <<cfg, nodes, fs, db, now, faults, mods, run, mainPc, walkIdx,
                   pending, wg, writerMutex, writer, csvFile, dbAtReturn, changedInRun>>

\* deferred: wg.Done()
WgDone(i) ==
    /\ At(i, "released")
    /\ wg' = wg - 1
    /\ workers' = [workers EXCEPT ![i].pc = "done"]
    /\ UNCHANGED <<cfg, nodes, fs, db, now, faults, mods, run, mainPc, walkIdx,
                   pending, sem, writerMutex, writer, csvFile, dbAtReturn, changedInRun>>

(***************************************************************************)
(* The environment: another process rewrites a file of the tree or changes *)
(* how it can be accessed.  What a run sees of such a change depends only  *)
(* on where it falls relative to the run's Stat and read of that file, so  *)
(* the change is placed before the run walks or between the two.           *)
(***************************************************************************)
OpenBy(p) ==
    {i \in DOMAIN workers :
        workers[i].path = p /\ workers[i].pc \in {"lookup", "hashNew", "hashChanged"}}

FsChange(p) ==
    /\ EventsLeft
    /\ mainPc = "start" \/ OpenBy(p) # {}
    /\ mods' = mods + 1
    /\ \E c \in Contents, m \in FileModes :
          /\ (c = fs[p].content) # (m = fs[p].mode)
          /\ fs' = [fs EXCEPT ![p] = [content |-> c, mtime |-> now, mode |-> m]]
    /\ changedInRun' = (changedInRun \/ mainPc # "start")
    /\ UNCHANGED <<cfg, nodes, db, now, faults, run, mainPc, walkIdx, pending,
                   sem, wg, writerMutex, writer, csvFile, workers, dbAtReturn>>

(***************************************************************************)
(* The specification.                                                      *)
(***************************************************************************)
Slots == 1..Len(nodes)

Next ==
    \/ Startup
    \/ WalkVisit
    \/ Dispatch
    \/ WalkReturn
    \/ WaitReturn
    \/ LogCompleted
    \/ Exit
    \/ StartRun
    \/ \E i \in Slots : ProcessFileOpen(i)
    \/ \E i \in Slots : ProcessFileLookup(i)
    \/ \E i \in Slots : ProcessFileLookupError(i)
    \/ \E i \in Slots : ProcessFileHash(i)
    \/ \E i \in Slots : InsertSucceeds(i)
    \/ \E i \in Slots : InsertRetries(i)
    \/ \E i \in Slots : UpdateSucceeds(i)
    \/ \E i \in Slots : UpdateRetries(i)
    \/ \E i \in Slots : Lock(i)
    \/ \E i \in Slots : Write(i)
    \/ \E i \in Slots : WriteFails(i)
    \/ \E i \in Slots : Flush(i)
    \/ \E i \in Slots : Unlock(i)
    \/ \E i \in Slots : SemReceive(i)
    \/ \E i \in Slots : WgDone(i)
    \/ \E p \in DOMAIN fs : FsChange(p)

Spec == Init /\ [][Next]_vars

(***************************************************************************)
(* The same program and environment on the tree of TreeMixed alone: one    *)
(* file is dispatched in each scan, next to an excluded file that has a    *)
(* record, a symbolic link and a node Walk cannot access, and the table    *)
(* holds records of paths outside the tree.  This is the history of the    *)
(* store and of the ledgers over the scans, without the interleavings of   *)
(* two goroutines.                                                         *)
(***************************************************************************)
\* records of earlier scans of other trees: of /a, which is outside the root
\* /m, and of /m/b, a file that no longer exists
OtherRecords ==
    (RootA :> DbRow(HexDigest(<<1>>), 1, 0, 0)) @@ (FileB :> DbRow(HexDigest(<<>>), 0, 0, 0))

InitMixed ==
    /\ InitTree(TreeMixed, {InitialContent}, {"ok"})
    /\ \E table \in {InitialTable, StaleTable(TreeMixed)} :
          InitEngine(table @@ OtherRecords)
    /\ faults = 0
    /\ mods = 0

SpecMixed == InitMixed /\ [][Next]_vars

(***************************************************************************)
(* One run of the same program on the trees of EdgeTrees, with a store     *)
(* that may be out of reach at start-up and whose writes may fail, and     *)
(* files that nobody else touches; /m/a is as long as /a or empty.         *)
(***************************************************************************)
InitEdge ==
    /\ \E tree \in EdgeTrees :
          /\ cfg = tree.cfg
          /\ nodes = tree.nodes
          /\ \E c \in {InitialContent, <<>>} :
                fs = [p \in RegularPaths(tree) |->
                         FileState(IF p = FileA THEN c ELSE InitialContent, "ok")]
          /\ \E table \in {InitialTable, StaleTable(tree)} : InitEngine(table)
    /\ faults = 0
    /\ mods = 0

NextEdge ==
    \/ Startup
    \/ CreateTableFails
    \/ WalkVisit
    \/ Dispatch
    \/ WalkReturn
    \/ WaitReturn
    \/ LogCompleted
    \/ Exit
    \/ \E i \in Slots : ProcessFileOpen(i)
    \/ \E i \in Slots : ProcessFileLookup(i)
    \/ \E i \in Slots : ProcessFileHash(i)
    \/ \E i \in Slots : InsertSucceeds(i)
    \/ \E i \in Slots : InsertRetries(i)
    \/ \E i \in Slots : UpdateSucceeds(i)
    \/ \E i \in Slots : UpdateRetries(i)
    \/ \E i \in Slots : Lock(i)
    \/ \E i \in Slots : Write(i)
    \/ \E i \in Slots : Flush(i)
    \/ \E i \in Slots : Unlock(i)
    \/ \E i \in Slots : SemReceive(i)
    \/ \E i \in Slots : WgDone(i)

SpecEdge == InitEdge /\ [][NextEdge]_vars

(***************************************************************************)
(* Scheduling.  The Go scheduler runs every goroutine that can take a step *)
(* and main; a store that is eventually available lets a db.Exec through   *)
(* that the table accepts.  Failures and other processes are not obliged   *)
(* to act.                                                                 *)
(***************************************************************************)
MainStep ==
    \/ Startup
    \/ WalkVisit
    \/ Dispatch
    \/ WalkReturn
    \/ WaitReturn
    \/ LogCompleted
    \/ Exit

WorkerStep(i) ==
    \/ ProcessFileOpen(i)
    \/ ProcessFileLookup(i)
    \/ ProcessFileHash(i)
    \/ InsertSucceeds(i)
    \/ UpdateSucceeds(i)
    \/ Lock(i)
    \/ Write(i)
    \/ Flush(i)
    \/ Unlock(i)
    \/ SemReceive(i)
    \/ WgDone(i)

AllSlots == UNION {1..Len(tree.nodes) : tree \in Trees \cup EdgeTrees}

Fairness == WF_vars(MainStep) /\ \A i \in AllSlots : WF_vars(WorkerStep(i))

SpecLive == Spec /\ Fairness

SpecEdgeLive == SpecEdge /\ Fairness

(***************************************************************************)
(* The goroutine as one step, for the tree that saturates the pool: the    *)
(* whole of processFile with a store that answers, then Lock, Write,       *)
(* Flush, the deferred Unlock and the deferred <-sem.  The goroutine's     *)
(* last statement, wg.Done(), stays a step of its own.                     *)
(***************************************************************************)
processFile(w0, table, t) ==
    LET w1 == OpenAndStat(w0)
        w2 == Reconcile(w1, getDatabaseRecord(table, w1.storedPath))
        w3 == Hashed(w2)
    IN  IF w1.pc = "returned" THEN [w |-> w1, db |-> table]
        ELSE IF w2.pc = "returned" THEN [w |-> w2, db |-> table]
        ELSE IF w3.pc = "returned" THEN [w |-> w3, db |-> table]
        ELSE IF w3.pc = "insert"
        THEN [w  |-> ReturnOk(w3, w3.hash, w3.size, <<"new">>),
              db |-> InsertRow(table, w3.storedPath, w3.hash, w3.size, w3.fileTimestamp, t)]
        ELSE [w  |-> ReturnOk(w3, w3.hash, w3.size, <<"changed">>),
              db |-> UpdateRow(table, w3.storedPath, w3.hash, w3.size, w3.fileTimestamp, t)]

Goroutine(i) ==
    /\ At(i, "start")
    /\ MutexFree
    /\ LET r == processFile(workers[i], db, now) IN
       /\ db' = r.db
       /\ csvFile' = [csvFile EXCEPT ![run] = @ (+) Appended(writer, r.w)]
       /\ workers' = [workers EXCEPT ![i] = [r.w EXCEPT !.pc = "released", !.writes = 1]]
    /\ writer' = EmptyBag
    /\ sem' = sem - 1
    /\ UNCHANGED <<cfg, nodes, fs, now, faults, mods, run, mainPc, walkIdx,
                   pending, wg, writerMutex, dbAtReturn, changedInRun>>

InitPool ==
    /\ InitEngine(InitialTable)
    /\ InitTree(TreePool, {<<>>}, {"ok"})
    /\ faults = 0
    /\ mods = 0

NextPool ==
    \/ Startup
    \/ WalkVisit
    \/ Dispatch
    \/ WalkReturn
    \/ WaitReturn
    \/ LogCompleted
    \/ Exit
    \/ \E i \in Slots : Goroutine(i)
    \/ \E i \in Slots : WgDone(i)

SpecPool == InitPool /\ [][NextPool]_vars

(***************************************************************************)
(* The goroutine in two steps, for the same saturating tree: processFile   *)
(* with a store that answers and writerMutex.Lock(), which waits while     *)
(* another goroutine holds the mutex; then Write, Flush and the deferred   *)
(* Unlock, <-sem and wg.Done().  A goroutine at its start is in            *)
(* processFile or waits for the mutex.                                     *)
(***************************************************************************)
GoroutineLock(i) ==
    /\ At(i, "start")
    /\ MutexFree
    /\ LET r == processFile(workers[i], db, now) IN
       /\ db' = r.db
       /\ workers' = [workers EXCEPT ![i] = [r.w EXCEPT !.pc = "locked"]]
    /\ writerMutex' = TRUE
    /\ UNCHANGED <<cfg, nodes, fs, now, faults, mods, run, mainPc, walkIdx, pending,
                   sem, wg, writer, csvFile, dbAtReturn, changedInRun>>

GoroutineLeave(i) ==
    /\ At(i, "locked")
    /\ csvFile' = [csvFile EXCEPT ![run] = @ (+) Appended(writer, workers[i])]
    /\ writer' = EmptyBag
    /\ writerMutex' = Unlocked
    /\ sem' = AfterReceive(workers[i], sem)
    /\ wg' = wg - 1
    /\ workers' = [workers EXCEPT ![i].pc = "done", ![i].writes = 1]
    /\ UNCHANGED <<cfg, nodes, fs, db, now, faults, mods, run, mainPc, walkIdx,
                   pending, dbAtReturn, changedInRun>>

NextLockPool ==
    \/ Startup
    \/ WalkVisit
    \/ Dispatch
    \/ WalkReturn
    \/ WaitReturn
    \/ LogCompleted
    \/ Exit
    \/ \E i \in Slots : GoroutineLock(i)
    \/ \E i \in Slots : GoroutineLeave(i)

SpecLockPool == InitPool /\ [][NextLockPool]_vars

(***************************************************************************)
(* The variant of src/unnamed/part_002: SHA-256, --prefix but no           *)
(* --exclude, everything in main and processFile.  Its goroutines call     *)
(* writer.Write with no lock around it and never flush; the only Flush is  *)
(* the one main defers.  csv.Writer is not safe for concurrent use: two    *)
(* calls of Write that overlap are a data race, after which the row is in  *)
(* the buffer, or is not, or is there in part.                             *)
(***************************************************************************)
\* fmt.Sprintf("%x", hasher.Sum(nil)) after the content was copied into the hasher
Sha256Hex(content) == <<"sha256">> \o content

ErrStat(path) == <<"failed to stat file", path>>

\* the table before the variant's scan, and after an earlier scan that
\* recorded FileA when it was empty
VariantTable == (OutsidePath :> DbRow(Sha256Hex(<<0>>), 1, 0, 0))

VariantStaleTable ==
    VariantTable @@ (SliceFrom(FileA, Len(DirM)) :> DbRow(Sha256Hex(<<>>), 0, 0, 0))

InitVariant ==
    /\ InitTree(TreeTwo, {InitialContent, <<>>}, {"ok", "noopen"})
    /\ \E table \in {VariantTable, VariantStaleTable} : InitEngine(table)
    /\ faults = 0
    /\ mods = 0

\* main up to filepath.Walk: the header goes into the writer's buffer
VariantStartup == Startup

\* storedPath of the walk callback
VariantStoredPath(prefix, path) ==
    IF prefix # <<>> /\ Len(path) > Len(prefix) /\ SubSeq(path, 1, Len(prefix)) = prefix
    THEN SliceFrom(path, Len(prefix))
    ELSE path

\* the walk callback up to the send on sem
VariantWalkVisit ==
    /\ mainPc = "walking"
    /\ pending = <<>>
    /\ walkIdx <= Len(nodes)
    /\ LET node == nodes[walkIdx] IN
       IF node.walkErr \/ node.kind # "regular"
       THEN /\ walkIdx' = walkIdx + 1
            /\ pending' = pending
       ELSE /\ walkIdx' = walkIdx
            /\ pending' = <<node.path, VariantStoredPath(cfg.Prefix, node.path)>>
    /\ UNCHANGED <<cfg, nodes, fs, db, now, faults, mods, run, mainPc,
                   sem, wg, writerMutex, writer, csvFile, workers, dbAtReturn, changedInRun>>

\* sem <- struct{}{}; wg.Add(1); go func(path, storedPath); return nil
VariantDispatch == Dispatch

\* filepath.Walk returns
VariantWalkReturn == WalkReturn

\* wg.Wait() returns; close(errCh)
VariantWaitReturn == WaitReturn

\* log.Printf("SHA256 hash calculation and storage completed. ...")
VariantLogCompleted == LogCompleted

\* main returns: the deferred writer.Flush(), file.Close(), db.Close()
VariantExit == Exit

\* processFile: os.Open and file.Stat
VariantOpenAndStat(w) ==
    LET f == fs[w.path] IN
    IF f.mode = "noopen" THEN ReturnErr(w, ErrOpen(w.path))
    ELSE IF f.mode = "nostat" THEN ReturnErr(w, ErrStat(w.path))
    ELSE [w EXCEPT !.pc = "lookup", !.size = Len(f.content), !.fileTimestamp = f.mtime]

VariantOpen(i) ==
    /\ At(i, "start")
    /\ workers' = [workers EXCEPT ![i] = VariantOpenAndStat(@)]
    /\ UNCHANGED <<cfg, nodes, fs, db, now, faults, mods, run, mainPc, walkIdx,
                   pending, sem, wg, writerMutex, writer, csvFile, dbAtReturn, changedInRun>>

\* processFile from the answer of the SELECT to the first INSERT or UPDATE:
\* without a record the file is copied into the hasher; with a record of
\* another size the hasher is asked for its sum with nothing written to it
VariantReconcile(w, rec) ==
    LET f == fs[w.path] IN
    IF rec.err = <<"sql.ErrNoRows">>
    THEN IF f.mode = "noread"
         THEN ReturnErr(w, ErrHash(w.path, <<"read">>))
         ELSE [w EXCEPT !.pc = "insert", !.hash = Sha256Hex(f.content)]
    ELSE IF rec.err # NoErr THEN ReturnErr(w, ErrQuery(w.storedPath, rec.err))
    ELSE IF w.size # rec.dbSize
         THEN [w EXCEPT !.pc = "update", !.dbSize = rec.dbSize, !.hash = Sha256Hex(<<>>)]
         ELSE ReturnOk(w, rec.dbHash, rec.dbSize, <<"existing">>)

VariantLookup(i) ==
    /\ At(i, "lookup")
    /\ workers' = [workers EXCEPT ![i] =
                      VariantReconcile(@, getDatabaseRecord(db, @.storedPath))]
    /\ UNCHANGED <<cfg, nodes, fs, db, now, faults, mods, run, mainPc, walkIdx,
                   pending, sem, wg, writerMutex, writer, csvFile, dbAtReturn, changedInRun>>

\* the SELECT fails with an error other than sql.ErrNoRows
VariantLookupError(i) ==
    /\ At(i, "lookup")
    /\ EventsLeft
    /\ faults' = faults + 1
    /\ workers' = [workers EXCEPT ![i] =
                      VariantReconcile(@, [dbHash |-> <<>>, dbSize |-> 0,
                                           err |-> ErrConnection])]
    /\ UNCHANGED <<cfg, nodes, fs, db, now, mods, run, mainPc, walkIdx,
                   pending, sem, wg, writerMutex, writer, csvFile, dbAtReturn, changedInRun>>

\* the INSERT loop and the UPDATE loop: the statements of insertFileRecord
\* and updateFileRecord, inlined
VariantInsertSucceeds(i) == InsertSucceeds(i)

VariantInsertRetries(i) == InsertRetries(i)

VariantUpdateSucceeds(i) == UpdateSucceeds(i)

VariantUpdateRetries(i) == UpdateRetries(i)

\* the goroutines that are inside writer.Write
InWrite == {j \in DOMAIN workers : workers[j].pc \in {"writing", "writingRaced"}}

\* writer.Write is entered, with no lock taken: when another goroutine is
\* inside Write, the two calls race
VariantWriteBegin(i) ==
    /\ At(i, "returned")
    /\ workers' = [j \in DOMAIN workers |->
                      IF j = i
                      THEN [workers[j] EXCEPT
                               !.pc = IF InWrite = {} THEN "writing" ELSE "writingRaced"]
                      ELSE IF j \in InWrite
                           THEN [workers[j] EXCEPT !.pc = "writingRaced"]
                           ELSE workers[j]]
    /\ UNCHANGED <<cfg, nodes, fs, db, now, faults, mods, run, mainPc, walkIdx,
                   pending, sem, wg, writerMutex, writer, csvFile, dbAtReturn, changedInRun>>

\* what a call of Write that raced may leave of its row
TornRow(w) == SubSeq(CsvRow(w), 1, 2)

\* writer.Write returns; the row stays in the buffer, nobody flushes it
VariantWriteEnd(i) ==
    /\ i \in InWrite
    /\ writer' \in IF workers[i].pc = "writing"
                   THEN {Appended(writer, workers[i])}
                   ELSE {Appended(writer, workers[i]),
                         writer,
                         writer (+) SetToBag({TornRow(workers[i])})}
    /\ workers' = [workers EXCEPT ![i].pc = "written", ![i].writes = 1]
    /\ UNCHANGED <<cfg, nodes, fs, db, now, faults, mods, run, mainPc, walkIdx,
                   pending, sem, wg, writerMutex, csvFile, dbAtReturn, changedInRun>>

\* deferred: <-sem
VariantSemReceive(i) ==
    /\ At(i, "written")
    /\ sem' = sem - 1
    /\ workers' = [workers EXCEPT ![i].pc = "released"]
    /\ UNCHANGED <<cfg, nodes, fs, db, now, faults, mods, run, mainPc, walkIdx,
                   pending, wg, writerMutex, writer, csvFile, dbAtReturn, changedInRun>>

\* deferred: wg.Done()
VariantWgDone(i) == WgDone(i)

NextVariant ==
    \/ VariantStartup
    \/ VariantWalkVisit
    \/ VariantDispatch
    \/ VariantWalkReturn
    \/ VariantWaitReturn
    \/ VariantLogCompleted
    \/ VariantExit
    \/ \E i \in Slots : VariantOpen(i)
    \/ \E i \in Slots : VariantLookup(i)
    \/ \E i \in Slots : VariantLookupError(i)
    \/ \E i \in Slots : VariantInsertSucceeds(i)
    \/ \E i \in Slots : VariantInsertRetries(i)
    \/ \E i \in Slots : VariantUpdateSucceeds(i)
    \/ \E i \in Slots : VariantUpdateRetries(i)
    \/ \E i \in Slots : VariantWriteBegin(i)
    \/ \E i \in Slots : VariantWriteEnd(i)
    \/ \E i \in Slots : VariantSemReceive(i)
    \/ \E i \in Slots : VariantWgDone(i)

SpecVariant == InitVariant /\ [][NextVariant]_vars

(***************************************************************************)
(* Properties.                                                             *)
(***************************************************************************)
\* processDirectory has returned in this run
Returned == mainPc \in {"returned", "completed", "exited"}

\* the nodes the walk callback hands to a goroutine
Dispatchable(i) ==
    /\ ~nodes[i].walkErr
    /\ nodes[i].kind = "regular"
    /\ ~Excluded(cfg, nodes[i].path)

\* the table as this run found it
DbBefore == dbAtReturn[run - 1]

\* the rows of a ledger that carry a given logical path
RowsOf(ledger, storedPath) == {r \in BagToSet(ledger) : r[1] = storedPath}

\* C1: when processDirectory returns, every regular, non-excluded file has been
\* dispatched, its goroutine has called writer.Write exactly once, whatever
\* branch processFile ended in, and the ledger holds exactly one row under its
\* logical path (none only if that very append failed) and no row of any
\* other path, for every interleaving and every pattern of retried writes.
C1_OneRowPerFile ==
    Returned =>
        /\ DOMAIN workers = {i \in 1..Len(nodes) : Dispatchable(i)}
        /\ \A i \in DOMAIN workers :
              LET w == workers[i] IN
              /\ w.writes = 1
              /\ RowsOf(csvFile[run], w.storedPath) =
                     IF w.writeErr THEN {} ELSE {CsvRow(w)}
              /\ ~w.writeErr => CopiesIn(CsvRow(w), csvFile[run]) = 1
        /\ \A r \in BagToSet(csvFile[run]) \ {CsvHeader} :
              \E i \in DOMAIN workers : r[1] = workers[i].storedPath

\* two files went through two goroutines, an INSERT was retried, both rows are there
C1_Witness ==
    /\ mainPc = "returned"
    /\ run = 1
    /\ Cardinality(DOMAIN workers) = 2
    /\ now > 1
    /\ \A i \in DOMAIN workers :
          /\ workers[i].status = <<"new">>
          /\ ~workers[i].writeErr
          /\ RowsOf(csvFile[run], workers[i].storedPath) # {}

\* C2: a file without a record is reported "new" and gets a record with the
\* hash and size processFile returned, which are the digest and length of the
\* file when nothing modified it; the next scan, with no change in between,
\* reports "existing" with the hash the first scan reported.
C2_NewThenExisting ==
    Returned =>
        \A i \in DOMAIN workers :
            LET w == workers[i]
                sp == w.storedPath
                f == fs[w.path]
            IN  /\ (w.err = NoErr /\ sp \notin DOMAIN DbBefore) =>
                      /\ w.status = <<"new">>
                      /\ sp \in DOMAIN db
                      /\ db[sp].hash = w.hash
                      /\ db[sp].size = w.size
                      /\ mods = 0 =>
                            /\ db[sp].hash = HexDigest(f.content)
                            /\ db[sp].size = Len(f.content)
                /\ (run > 1 /\ mods = 0 /\ w.err = NoErr) =>
                      \A r \in RowsOf(csvFile[run - 1], sp) :
                          r[4] = <<"new">> =>
                              /\ w.status = <<"existing">>
                              /\ w.hash = r[2]

\* the second scan has reported "existing" for a file the first reported "new"
C2_Witness ==
    /\ Returned
    /\ run = 2
    /\ mods = 0
    /\ \E i \in DOMAIN workers :
          /\ workers[i].status = <<"existing">>
          /\ workers[i].size = 1
          /\ \E r \in RowsOf(csvFile[1], workers[i].storedPath) :
                r[4] = <<"new">> /\ r[2] = workers[i].hash

\* C3: after a scan during which nothing modified the tree, a file that had a
\* record of another size than the file has on disk was reported "changed",
\* and its record holds the digest of the file's content and exactly its size.
C3_ChangedOnSizeChange ==
    (Returned /\ ~changedInRun) =>
        \A i \in DOMAIN workers :
            LET w == workers[i]
                sp == w.storedPath
                f == fs[w.path]
            IN  (/\ w.err = NoErr
                 /\ sp \in DOMAIN DbBefore
                 /\ Len(f.content) # DbBefore[sp].size) =>
                    /\ w.status = <<"changed">>
                    /\ w.hash = HexDigest(f.content)
                    /\ w.size = Len(f.content)
                    /\ db[sp].hash = HexDigest(f.content)
                    /\ db[sp].size = Len(f.content)

\* a file changed size between two scans and the second scan has updated it
C3_Witness ==
    /\ Returned
    /\ run = 2
    /\ ~changedInRun
    /\ \E i \in DOMAIN workers :
          LET sp == workers[i].storedPath IN
          /\ workers[i].status = <<"changed">>
          /\ sp \in DOMAIN dbAtReturn[1]
          /\ db[sp].size # dbAtReturn[1][sp].size
          /\ db[sp].hash # dbAtReturn[1][sp].hash

\* C4: a file reported "existing" carries the stored hash and size and its
\* record is, in all four columns, the one the run found; and after a scan
\* during which nothing modified the tree, every file whose size on disk
\* equals the stored size was reported "existing", whatever its content.
C4_ExistingOnEqualSize ==
    \A i \in DOMAIN workers :
        LET w == workers[i]
            sp == w.storedPath
            f == fs[w.path]
        IN  /\ w.status = <<"existing">> =>
                  /\ sp \in DOMAIN DbBefore
                  /\ db[sp] = DbBefore[sp]
                  /\ w.hash = DbBefore[sp].hash
                  /\ w.size = DbBefore[sp].size
            /\ (/\ Returned /\ ~changedInRun
                /\ w.err = NoErr
                /\ sp \in DOMAIN DbBefore
                /\ Len(f.content) = DbBefore[sp].size) =>
                   w.status = <<"existing">>

\* the content changed between two scans, the size did not: "existing", stale hash
C4_Witness ==
    /\ Returned
    /\ run = 2
    /\ ~changedInRun
    /\ \E i \in DOMAIN workers :
          LET w == workers[i] IN
          /\ w.status = <<"existing">>
          /\ w.hash # HexDigest(fs[w.path].content)
          /\ db[w.storedPath].hash # HexDigest(fs[w.path].content)
          /\ db[w.storedPath] = dbAtReturn[1][w.storedPath]

\* C5: with no filesystem change and no failure of the store or the ledger,
\* a run after the first changes no record the previous run left, and when
\* it has returned the store is identical to the store the previous run left
\* and every file is reported "existing", with the stored hash and size.
C5_IdempotentRecordedFiles ==
    (run > 1 /\ mods = 0 /\ faults = 0) =>
        /\ \A sp \in DOMAIN dbAtReturn[run - 1] :
              sp \in DOMAIN db /\ db[sp] = dbAtReturn[run - 1][sp]
        /\ Returned =>
              /\ db = dbAtReturn[run - 1]
              /\ \A i \in DOMAIN workers :
                    LET w == workers[i] IN
                    /\ w.err = NoErr
                    /\ w.status = <<"existing">>
                    /\ w.hash = db[w.storedPath].hash
                    /\ w.size = db[w.storedPath].size

\* the second run is over: two files, both "existing", the store as it was
C5_Witness ==
    /\ Returned
    /\ run = 2
    /\ mods = 0
    /\ faults = 0
    /\ Cardinality(DOMAIN workers) = 2
    /\ \A i \in DOMAIN workers : workers[i].status = <<"existing">>
    /\ Cardinality(DOMAIN db) = 3
    /\ db = dbAtReturn[1]

\* C6: every record of the table holds the digest and the byte length of one
\* and the same content.
C6_HashAndSizeOfOneRead ==
    \A sp \in DOMAIN db :
        \E c \in Contents : db[sp].hash = HexDigest(c) /\ db[sp].size = Len(c)

\* C7: at most one goroutine is between its writerMutex.Lock() and its
\* Unlock(), the mutex is locked exactly then, and the row in the writer's
\* buffer between a Write and its Flush is the row of that goroutine alone.
InCriticalSection(i) == workers[i].pc \in {"locked", "written", "flushed"}

C7_MutualExclusion ==
    LET cs == {i \in DOMAIN workers : InCriticalSection(i)} IN
    /\ Cardinality(cs) <= 1
    /\ writerMutex <=> cs # {}
    /\ \A i \in cs :
          /\ workers[i].pc = "locked" => BagToSet(writer) \subseteq {CsvHeader}
          /\ workers[i].pc = "written" =>
                BagToSet(writer) \ {CsvHeader} \subseteq {CsvRow(workers[i])}
    /\ (mainPc = "walking" \/ mainPc = "waiting") /\ cs = {} =>
          BagToSet(writer) \subseteq {CsvHeader}

\* one goroutine holds the mutex with its row written, another waits for it
C7_Witness ==
    \E i, j \in DOMAIN workers :
        /\ workers[i].pc = "written"
        /\ CsvRow(workers[i]) \in BagToSet(writer)
        /\ workers[j].pc = "returned"

\* C8 as stated: at most 8 dispatched goroutines have not yet returned.
C8_AtMostCapNotReturned ==
    Cardinality({i \in DOMAIN workers : workers[i].pc # "done"}) <= SemCap

\* C8, amended: at most 8 dispatched goroutines have not yet given back their
\* semaphore slot (the deferred <-sem), and sem holds one token for each.
HoldsSlot(i) == workers[i].pc \notin {"released", "done"}

C8_AtMostCapHoldSlot ==
    LET holding == {i \in DOMAIN workers : HoldsSlot(i)} IN
    /\ Cardinality(holding) <= SemCap
    /\ sem = Cardinality(holding)

\* eight goroutines hold the eight slots
C8_Witness ==
    /\ sem = SemCap
    /\ Cardinality({i \in DOMAIN workers : HoldsSlot(i)}) = SemCap

\* C9: the walker never leaves a discovered file behind without a goroutine
\* (there is no queue: the one path it holds is the one it is sending), and
\* while sem holds 8 tokens no goroutine is started and a walker that holds a
\* path stays where it is.
C9_NothingQueued ==
    /\ \A j \in 1..Len(nodes) :
          (j < walkIdx /\ Dispatchable(j)) => j \in DOMAIN workers
    /\ pending # <<>> => pending[1] = nodes[walkIdx].path
    /\ \A i \in DOMAIN workers : i < walkIdx

C9_BlockedWhileFull ==
    sem = SemCap =>
        /\ DOMAIN workers' = DOMAIN workers
        /\ pending # <<>> => (walkIdx' = walkIdx /\ pending' = pending)

C10_AllDoneAtReturn ==
    Returned =>
        /\ walkIdx = Len(nodes) + 1
        /\ pending = <<>>
        /\ DOMAIN workers = {i \in 1..Len(nodes) : Dispatchable(i)}
        /\ \A i \in DOMAIN workers :
              /\ workers[i].pc = "done"
              /\ ~workers[i].writeErr => BagIn(CsvRow(workers[i]), csvFile[run])
        /\ BagToSet(writer) \subseteq {CsvHeader}
        /\ mainPc = "completed" => writer = EmptyBag \/ DOMAIN workers = {}

C10_NoRescan ==
    /\ mainPc \in {"returned", "completed"} =>
          /\ mainPc' \in {"returned", "completed", "exited"}
          /\ walkIdx' = walkIdx
          /\ workers' = workers
    /\ mainPc # "exited" => walkIdx' \in {walkIdx, walkIdx + 1}

C10_CompletionLast == [](C10_AllDoneAtReturn) /\ [][C10_NoRescan]_vars

\* completion has been logged for a scan of two files, both rows in the file
C10_Witness ==
    /\ mainPc = "completed"
    /\ Cardinality(DOMAIN workers) = 2
    /\ \A i \in DOMAIN workers : BagIn(CsvRow(workers[i]), csvFile[run])

\* C11: under fair scheduling and a store that is eventually available for
\* writes, every scan that has started its walk ends it, sees every dispatched
\* goroutine return and reports its completion, for every tree and
\* configuration.
C11_ScanTerminates == (mainPc = "walking") ~> (mainPc = "completed")

\* C12: a failed INSERT or UPDATE is retried, never reported and never given
\* up: no goroutine returns one of processFile's write errors, no row of the
\* ledger carries one, and a goroutine that returned "new" or "changed" has
\* its hash and size in the record of its logical path.
WriteErrors == {ErrInsert(<<>>)[1], ErrUpdate(<<>>)[1]}

C12_WritesNeverAbandoned ==
    /\ \A i \in DOMAIN workers :
          LET w == workers[i] IN
          /\ w.err # NoErr => w.err[1] \notin WriteErrors
          /\ w.status \in {<<"new">>, <<"changed">>} =>
                /\ w.storedPath \in DOMAIN db
                /\ db[w.storedPath].hash = w.hash
                /\ db[w.storedPath].size = w.size
    /\ \A r \in BagToSet(csvFile[run] (+) writer) :
          Len(r[4]) > 1 => r[4][2] \notin WriteErrors

\* an UPDATE failed and was retried, the goroutine reported "changed" after
\* the record was written, and its row is in the ledger
C12_Witness ==
    /\ Returned
    /\ run = 1
    /\ faults = 1
    /\ now > 1
    /\ \E i \in DOMAIN workers :
          LET w == workers[i] IN
          /\ w.status = <<"changed">>
          /\ db[w.storedPath].hash_calculated_timestamp > 1
          /\ CsvRow(w) \in BagToSet(csvFile[run])

\* C13: when the lookup answers that there is no record, processFile goes on
\* to hash and insert, and reports "new"; when the lookup fails otherwise, it
\* returns at once with the error that carries the cause, the goroutine writes
\* the error row, the record of that path is neither created nor changed, and
\* the scan goes on to a row for every other dispatched file.
UntouchedRecord(storedPath) ==
    /\ storedPath \in DOMAIN db <=> storedPath \in DOMAIN DbBefore
    /\ storedPath \in DOMAIN db => db[storedPath] = DbBefore[storedPath]

AfterWrite(w) == w.pc \in {"written", "flushed", "unlocked", "released", "done"}

C13_LookupStep ==
    \A i \in DOMAIN workers \cap DOMAIN workers' :
        (workers[i].pc = "lookup" /\ workers'[i].pc # "lookup") =>
            LET w == workers[i]
                after == workers'[i]
            IN  IF faults' # faults
                THEN /\ after.pc = "returned"
                     /\ after.err = <<"failed to query database for", w.storedPath>>
                                       \o ErrConnection
                     /\ db' = db
                ELSE IF w.storedPath \notin DOMAIN db
                THEN after.pc = "hashNew" /\ after.err = NoErr
                ELSE after.pc \in {"hashChanged", "returned"} /\ after.err = NoErr

C13_LookupOutcome ==
    /\ \A i \in DOMAIN workers :
          LET w == workers[i] IN
          /\ (w.err # NoErr /\ w.err[1] = "failed to query database for") =>
                /\ UntouchedRecord(w.storedPath)
                /\ CsvRow(w)[2] = <<>> /\ CsvRow(w)[3] = "-1"
                /\ CsvRow(w)[4] = <<"error: ">> \o w.err
                /\ (AfterWrite(w) /\ ~w.writeErr) =>
                       CopiesIn(CsvRow(w), csvFile[run] (+) writer) = 1
          /\ (w.pc \in {"hashNew", "insert"} \/ w.status = <<"new">>) =>
                w.storedPath \notin DOMAIN DbBefore
          /\ (w.status = <<"new">>) =>
                w.storedPath \in DOMAIN db /\ db[w.storedPath].hash = w.hash
    /\ Returned =>
          /\ DOMAIN workers = {i \in 1..Len(nodes) : Dispatchable(i)}
          /\ \A i \in DOMAIN workers : workers[i].pc = "done"

C13_AbsentOrFailure == [](C13_LookupOutcome) /\ [][C13_LookupStep]_vars

\* one file's lookup failed and it has an error row and no record, the other
\* file's lookup answered absent and it was inserted and reported "new"
C13_Witness ==
    /\ Returned
    /\ run = 1
    /\ \E i, j \in DOMAIN workers :
          /\ workers[i].err = ErrQuery(workers[i].storedPath, ErrConnection)
          /\ workers[i].storedPath \notin DOMAIN db
          /\ CsvRow(workers[i]) \in BagToSet(csvFile[run])
          /\ workers[j].status = <<"new">>
          /\ workers[j].storedPath \in DOMAIN db
          /\ CsvRow(workers[j]) \in BagToSet(csvFile[run])

\* C14: when os.Open, file.Stat or the read of hashFile fails, processFile
\* returns at once with the error of that call and no hash, the goroutine
\* writes the error row, the record of that path is neither created nor
\* changed, and the scan goes on to a row for every other dispatched file.
IoErrors == {ErrOpen(<<>>)[1], ErrMetadata(<<>>, <<>>)[1], ErrHash(<<>>, <<>>)[1]}

C14_IoStep ==
    \A i \in DOMAIN workers \cap DOMAIN workers' :
        LET w == workers[i]
            after == workers'[i]
            mode == fs[w.path].mode
            failed == after.pc = "returned" /\ after.hash = <<>> /\ after.size = -1
                      /\ after.status = <<>> /\ db' = db
        IN  /\ (w.pc = "start" /\ after.pc # "start") =>
                  IF mode = "noopen"
                  THEN failed /\ after.err = <<"failed to open file", w.path>>
                  ELSE IF mode = "nostat"
                  THEN failed /\ after.err[1] = "failed to retrieve metadata for file"
                       /\ after.err[2] = w.path
                  ELSE after.pc = "lookup" /\ after.err = NoErr
            /\ (w.pc \in {"hashNew", "hashChanged"} /\ after.pc # w.pc) =>
                  IF mode = "noread"
                  THEN failed /\ after.err[1] = "failed to hash file"
                       /\ after.err[2] = w.path
                  ELSE after.pc \in {"insert", "update"} /\ after.err = NoErr

C14_IoOutcome ==
    /\ \A i \in DOMAIN workers :
          LET w == workers[i] IN
          (w.err # NoErr /\ w.err[1] \in IoErrors) =>
              /\ UntouchedRecord(w.storedPath)
              /\ CsvRow(w) = <<w.storedPath, <<>>, "-1", <<"error: ">> \o w.err>>
              /\ (AfterWrite(w) /\ ~w.writeErr) =>
                     CopiesIn(CsvRow(w), csvFile[run] (+) writer) = 1
    /\ Returned =>
          /\ DOMAIN workers = {i \in 1..Len(nodes) : Dispatchable(i)}
          /\ \A i \in DOMAIN workers : workers[i].pc = "done"

C14_IoFailureIsARow == [](C14_IoOutcome) /\ [][C14_IoStep]_vars

\* the read of one file failed after its lookup answered absent: it has an
\* error row and no record, and the other file was inserted and reported "new"
C14_Witness ==
    /\ Returned
    /\ run = 1
    /\ \E i, j \in DOMAIN workers :
          /\ workers[i].err = ErrHash(workers[i].path, <<"read">>)
          /\ workers[i].storedPath \notin DOMAIN db
          /\ CsvRow(workers[i]) \in BagToSet(csvFile[run])
          /\ workers[j].status = <<"new">>
          /\ CsvRow(workers[j]) \in BagToSet(csvFile[run])

\* C15: when the record of a logical path was created by another writer
\* after a goroutine's lookup answered absent, that goroutine's INSERT is
\* refused: it stays in insertFileRecord, reports nothing, and the table
\* keeps the one record of that path, the one created first; at most one
\* goroutine reports "new" for a logical path.
C15_RefusedInsertStep ==
    \A i \in DOMAIN workers \cap DOMAIN workers' :
        LET w == workers[i] IN
        (w.pc = "insert" /\ w.storedPath \in DOMAIN db) =>
            /\ workers'[i] = w
            /\ w.storedPath \in DOMAIN db'
            /\ db'[w.storedPath] = db[w.storedPath]

C15_OneCreator ==
    \A i, j \in DOMAIN workers :
        (/\ workers[i].storedPath = workers[j].storedPath
         /\ workers[i].status = <<"new">>
         /\ workers[j].status = <<"new">>) => i = j

C15_LateInsertRefused == [](C15_OneCreator) /\ [][C15_RefusedInsertStep]_vars

\* /a was inserted and reported "new" by one goroutine; the other, whose
\* lookup had answered absent, has retried its INSERT and is still at it
C15_Witness ==
    /\ run = 1
    /\ faults = 0
    /\ now > 1
    /\ \E i, j \in DOMAIN workers :
          /\ workers[i].storedPath = workers[j].storedPath
          /\ workers[i].status = <<"new">>
          /\ workers[i].pc = "done"
          /\ db[workers[i].storedPath].hash = workers[i].hash
          /\ workers[j].pc = "insert"

\* C16: the logical paths handed to processFile during one processDirectory
\* call are pairwise distinct, so no two goroutines of a scan work on the same
\* key of the store.
C16_DistinctLogicalPaths ==
    \A i, j \in DOMAIN workers :
        workers[i].storedPath = workers[j].storedPath => i = j

\* C17: a file whose path contains one of the configured (non-empty)
\* exclusion strings is never handed to a goroutine: nothing is pending for
\* it, no row of the ledger carries its logical path, and the record of its
\* logical path is neither created nor changed.
HasExclusion(path) ==
    \E k \in 1..Len(cfg.ExcludeStrings) :
        /\ Len(cfg.ExcludeStrings[k]) > 0
        /\ \E from \in 1..Len(path) :
              /\ from + Len(cfg.ExcludeStrings[k]) - 1 <= Len(path)
              /\ \A c \in 1..Len(cfg.ExcludeStrings[k]) :
                    path[from + c - 1] = cfg.ExcludeStrings[k][c]

LogicalPath(path) ==
    IF Len(cfg.Prefix) > 0 /\ Len(cfg.Prefix) <= Len(path)
       /\ \A c \in 1..Len(cfg.Prefix) : path[c] = cfg.Prefix[c]
    THEN [c \in 1..(Len(path) - Len(cfg.Prefix)) |-> path[Len(cfg.Prefix) + c]]
    ELSE path

C17_ExcludedNeverDispatched ==
    \A i \in 1..Len(nodes) :
        HasExclusion(nodes[i].path) =>
            /\ i \notin DOMAIN workers
            /\ pending = <<>> \/ pending[1] # nodes[i].path
            /\ RowsOf(csvFile[run] (+) writer, LogicalPath(nodes[i].path)) = {}
            /\ UntouchedRecord(LogicalPath(nodes[i].path))

\* the scan is over: the regular file /m/x was passed by, /m/a has its row
C17_Witness ==
    /\ Returned
    /\ \E i \in 1..Len(nodes) :
          /\ nodes[i].kind = "regular"
          /\ ~nodes[i].walkErr
          /\ HasExclusion(nodes[i].path)
          /\ walkIdx > i
          /\ i \notin DOMAIN workers
    /\ \E j \in DOMAIN workers :
          RowsOf(csvFile[run], workers[j].storedPath) # {}

\* C18: the logical path of a dispatched file is its physical path without
\* the configured prefix when the prefix is non-empty and the path starts
\* with it, and the physical path otherwise; the lookup, the record and the
\* ledger row use the logical path, and the file is opened, stat-ed and read
\* by the physical path the walk handed over.
C18_PrefixRewrite ==
    /\ pending # <<>> =>
          pending[1] = nodes[walkIdx].path /\ pending[2] = LogicalPath(pending[1])
    /\ \A i \in DOMAIN workers :
          LET w == workers[i] IN
          /\ w.path = nodes[i].path
          /\ w.path \in DOMAIN fs
          /\ w.storedPath = LogicalPath(w.path)
          /\ (w.pc \notin {"start", "returned"} /\ w.err = NoErr /\ w.status = <<>>) =>
                w.size = Len(fs[w.path].content)
          /\ w.status \in {<<"new">>, <<"changed">>} =>
                LogicalPath(w.path) \in DOMAIN db
          /\ (AfterWrite(w) /\ ~w.writeErr) =>
                \E r \in BagToSet(csvFile[run] (+) writer) : r[1] = LogicalPath(w.path)
    /\ \A sp \in DOMAIN db \ DOMAIN DbBefore :
          \E i \in DOMAIN workers : sp = LogicalPath(nodes[i].path)
    /\ \A r \in BagToSet(csvFile[run] (+) writer) \ {CsvHeader} :
          \E i \in DOMAIN workers : r[1] = LogicalPath(nodes[i].path)

\* under --prefix /m the file /m/a was recorded and reported as /a, and the
\* file /a, which does not start with the prefix, under its own path
C18_Witness ==
    /\ Returned
    /\ cfg.Prefix = DirM
    /\ \E i, j \in DOMAIN workers :
          /\ workers[i].path = FileA
          /\ workers[i].storedPath = RootA
          /\ workers[j].path = RootA
          /\ workers[j].storedPath = RootA
          /\ RootA \in DOMAIN db
          /\ FileA \notin DOMAIN db
          /\ RowsOf(csvFile[run], RootA) # {}
          /\ RowsOf(csvFile[run], FileA) = {}

\* C19: a node that Walk hands over with an error is passed by, and only that
\* node: no goroutine, no pending send, no ledger row and no change of the
\* record for it; the callback returns nil, so the walk moves on by one node
\* at a time to the last, and every other regular, non-excluded node is
\* dispatched.
C19_WalkStep == walkIdx' # walkIdx => walkIdx' = walkIdx + 1

C19_ErrorNodePassedBy ==
    /\ \A i \in 1..Len(nodes) :
          nodes[i].walkErr =>
              /\ i \notin DOMAIN workers
              /\ pending = <<>> \/ pending[1] # nodes[i].path
              /\ RowsOf(csvFile[run] (+) writer, LogicalPath(nodes[i].path)) = {}
              /\ UntouchedRecord(LogicalPath(nodes[i].path))
    /\ mainPc \in {"waiting", "returned", "completed", "exited"} =>
          /\ walkIdx = Len(nodes) + 1
          /\ \A j \in 1..Len(nodes) :
                (/\ ~nodes[j].walkErr
                 /\ nodes[j].kind = "regular"
                 /\ ~HasExclusion(nodes[j].path)) => j \in DOMAIN workers

C19_WalkErrorSkipsOneNode == [](C19_ErrorNodePassedBy) /\ [][C19_WalkStep]_vars

\* the scan is over: Walk could not access /b, and the file /m/a, which
\* comes after it, was dispatched and has its row
C19_Witness ==
    /\ Returned
    /\ \E i \in 1..Len(nodes), j \in DOMAIN workers :
          /\ nodes[i].walkErr
          /\ i < j
          /\ workers[j].pc = "done"
          /\ RowsOf(csvFile[run], workers[j].storedPath) # {}

\* C20: a run whose root directory does not exist aborts at start-up and
\* never reports a normal completion.
RootMissing == nodes[1].path = cfg.Directory /\ nodes[1].walkErr

C20_MissingRootIsFatal == RootMissing => mainPc \notin {"completed", "exited"}

\* C21: when the table-creation statement fails at start-up the run aborts
\* at that point: the failure takes main from its start straight to the
\* exit of the process with the store, the ledger and the walk untouched; in
\* the aborted run no node was visited, no goroutine dispatched, no header
\* or row written and no record changed, and nothing happens afterwards, so
\* no completion is reported.
C21_FatalStep ==
    /\ (mainPc = "start" /\ faults' # faults) =>
          /\ mainPc' = "aborted"
          /\ UNCHANGED <<db, writer, csvFile, workers, pending, walkIdx, sem, wg>>
    /\ mainPc # "aborted"

C21_AbortedRun ==
    mainPc = "aborted" =>
        /\ walkIdx = 1
        /\ pending = <<>>
        /\ workers = <<>>
        /\ sem = 0 /\ wg = 0
        /\ writer = EmptyBag
        /\ csvFile[run] = EmptyBag
        /\ db = DbBefore

C21_StartupFailureAborts == [](C21_AbortedRun) /\ [][C21_FatalStep]_vars

\* the store could not be reached when a tree with two regular files was
\* about to be scanned
C21_Witness ==
    /\ mainPc = "aborted"
    /\ faults = 1
    /\ Cardinality({i \in 1..Len(nodes) : Dispatchable(i)}) = 2

\* C22: the engine never deletes a record: every path the table held when an
\* earlier scan returned, or before the first scan, is still in the table;
\* and a record that is new or differs from what this scan found is the work
\* of a goroutine of this scan whose processFile inserted it (it reports
\* "new", the path had no record) or updated it (it reports "changed", the
\* path had one), and holds the hash and size of that goroutine.
C22_NeverDeletes ==
    /\ \A r \in 0..(run - 1) : DOMAIN dbAtReturn[r] \subseteq DOMAIN db
    /\ \A sp \in DOMAIN db :
          (sp \notin DOMAIN DbBefore \/ db[sp] # DbBefore[sp]) =>
              \E i \in DOMAIN workers :
                  LET w == workers[i] IN
                  /\ w.storedPath = sp
                  /\ \/ w.status = <<"new">> /\ sp \notin DOMAIN DbBefore
                     \/ w.status = <<"changed">> /\ sp \in DOMAIN DbBefore
                  /\ db[sp].hash = w.hash
                  /\ db[sp].size = w.size

\* after two scans the table has a path more than at the beginning, the
\* first scan's insert, and the second scan has updated that record
C22_Witness ==
    /\ run = 2
    /\ Returned
    /\ Cardinality(DOMAIN db) > Cardinality(DOMAIN dbAtReturn[0])
    /\ \E sp \in DOMAIN dbAtReturn[1] \ DOMAIN dbAtReturn[0] :
          db[sp] # dbAtReturn[1][sp]

\* C23: the table is keyed by filepath, so a logical path has at most one
\* record; and once processDirectory has returned, every file whose
\* processFile returned without error has the record of its logical path,
\* and that record holds the hash and the size the file's ledger row reports.
C23_RecordMatchesRow ==
    Returned =>
        \A i \in DOMAIN workers :
            LET w == workers[i] IN
            w.err = NoErr =>
                /\ w.storedPath \in DOMAIN db
                /\ db[w.storedPath].hash = w.hash
                /\ db[w.storedPath].size = w.size
                /\ w.writeErr \/ CsvRow(w) \in BagToSet(csvFile[run] (+) writer)

\* C24: a node that is not a regular file (a directory, a symbolic link, a
\* named pipe) is never handed to a goroutine: nothing is pending for it, no
\* goroutine has its path, no row of the ledger carries its logical path,
\* and the record of its logical path is neither read into a row nor
\* created nor changed.
C24_OnlyRegularFiles ==
    \A i \in 1..Len(nodes) :
        nodes[i].kind # "regular" =>
            /\ i \notin DOMAIN workers
            /\ pending = <<>> \/ pending[1] # nodes[i].path
            /\ \A j \in DOMAIN workers :
                  /\ workers[j].path # nodes[i].path
                  /\ workers[j].storedPath # LogicalPath(nodes[i].path)
            /\ RowsOf(csvFile[run] (+) writer, LogicalPath(nodes[i].path)) = {}
            /\ UntouchedRecord(LogicalPath(nodes[i].path))

\* the scan is over: the walk passed by a directory, the named pipe and the
\* symbolic link, and a regular file has its row
C24_Witness ==
    /\ Returned
    /\ \A k \in {"dir", "pipe", "symlink"} :
          \E i \in 1..Len(nodes) :
              /\ nodes[i].kind = k
              /\ ~nodes[i].walkErr
              /\ walkIdx > i
              /\ i \notin DOMAIN workers
    /\ \E j \in DOMAIN workers :
          RowsOf(csvFile[run], workers[j].storedPath) # {}

\* C25: a failed append to the ledger is only logged.  The goroutine whose
\* writer.Write failed is past its Write, having called it once; its row is
\* lost, and the record its processFile wrote is kept.  The mutex is held
\* exactly while some goroutine is between Lock and Unlock; and when
\* processDirectory has returned, no semaphore token is out, the wait group
\* is at zero, every dispatchable file has a goroutine that is done, and
\* every file whose Write did not fail has its row.
C25_WriteFailureOnlyLogged ==
    /\ \A i \in DOMAIN workers :
          LET w == workers[i] IN
          w.writeErr =>
              /\ AfterWrite(w)
              /\ w.writes = 1
              /\ RowsOf(csvFile[run] (+) writer, w.storedPath) = {}
              /\ w.status \in {<<"new">>, <<"changed">>} =>
                    /\ w.storedPath \in DOMAIN db
                    /\ db[w.storedPath].hash = w.hash
                    /\ db[w.storedPath].size = w.size
    /\ writerMutex <=> \E i \in DOMAIN workers : InCriticalSection(i)
    /\ Returned =>
          /\ sem = 0
          /\ wg = 0
          /\ \A j \in 1..Len(nodes) :
                Dispatchable(j) =>
                    /\ j \in DOMAIN workers
                    /\ workers[j].pc = "done"
                    /\ workers[j].writeErr
                          \/ CsvRow(workers[j]) \in BagToSet(csvFile[run] (+) writer)

\* the program has exited after a scan in which the Write of one new file's
\* row failed: its record is in the table, its row is not in the ledger, and
\* the other file has its row
C25_Witness ==
    /\ mainPc = "exited"
    /\ \E i, j \in DOMAIN workers :
          /\ i # j
          /\ workers[i].writeErr
          /\ workers[i].status = <<"new">>
          /\ db[workers[i].storedPath].hash = workers[i].hash
          /\ RowsOf(csvFile[run], workers[i].storedPath) = {}
          /\ ~workers[j].writeErr
          /\ CsvRow(workers[j]) \in BagToSet(csvFile[run])

\* C26: every row of the ledger but the header has one of two shapes.  An
\* error row has an empty hash, the size -1 and a status that starts with
\* "error: ", and carries the logical path of a goroutine whose processFile
\* returned an error; every other row has the status new, changed or
\* existing, a non-empty hash and a size that is a number from 0 up.  The
\* row of a goroutine that returned the error err is the error row of its
\* logical path with the status "error: " followed by err.
Statuses == {<<"new">>, <<"changed">>, <<"existing">>}

SizeStrings == {ToString(n) : n \in 0..MaxLen}

C26_RowShapes ==
    /\ \A r \in BagToSet(csvFile[run] (+) writer) \ {CsvHeader} :
          \/ /\ r[2] = <<>>
             /\ r[3] = "-1"
             /\ r[4][1] = "error: "
             /\ Len(r[4]) > 1
             /\ \E i \in DOMAIN workers :
                   workers[i].storedPath = r[1] /\ workers[i].err # NoErr
          \/ /\ r[4] \in Statuses
             /\ r[2] # <<>>
             /\ r[3] \in SizeStrings
    /\ \A i \in DOMAIN workers :
          LET w == workers[i] IN
          (w.err # NoErr /\ AfterWrite(w) /\ ~w.writeErr) =>
              RowsOf(csvFile[run] (+) writer, w.storedPath) =
                  {<<w.storedPath, <<>>, "-1", <<"error: ">> \o w.err>>}

\* the ledger of the first scan holds the error row of a file, the ledger
\* of the second, finished scan the row of the same file as new
C26_Witness ==
    /\ Returned
    /\ run = 2
    /\ \E r \in BagToSet(csvFile[1]), q \in BagToSet(csvFile[2]) :
          /\ r[3] = "-1"
          /\ r[4][1] = "error: "
          /\ q[1] = r[1]
          /\ q[4] = <<"new">>
          /\ q[3] = "1"

\* C27: no step of a scan changes the configuration or the tree it names.
\* A step of a goroutine changes the locals of that goroutine alone and
\* nothing of the walker (its position, the path it is sending, main's
\* position); and the writer's buffer and the ledger file change only in a
\* step of the one goroutine that is between Lock and Unlock, with the mutex
\* locked, or in main's own steps before any goroutine exists (the header)
\* and after all are done (the last Flush).
C27_GoroutineStep(i) == workers'[i] # workers[i]

C27_FrameStep ==
    /\ cfg' = cfg
    /\ nodes' = nodes
    /\ \A i \in DOMAIN workers :
          C27_GoroutineStep(i) =>
              /\ \A j \in DOMAIN workers \ {i} : workers'[j] = workers[j]
              /\ UNCHANGED <<walkIdx, pending, mainPc, run, dbAtReturn>>
    /\ (writer' # writer \/ csvFile' # csvFile) =>
          \/ /\ mainPc \in {"start", "completed"}
             /\ \A j \in DOMAIN workers : workers[j].pc = "done"
             /\ workers' = workers
          \/ \E i \in DOMAIN workers :
                /\ C27_GoroutineStep(i)
                /\ InCriticalSection(i)
                /\ writerMutex
                /\ \A j \in DOMAIN workers \ {i} : ~InCriticalSection(j)

C27_ConfigKept ==
    \E tree \in Trees \cup EdgeTrees \cup {TreePool} :
        cfg = tree.cfg /\ nodes = tree.nodes

C27_SharedStateUnderMutex == [](C27_ConfigKept) /\ [][C27_FrameStep]_vars

\* one goroutine has flushed its row into the ledger and still holds the
\* mutex while the other, back from processFile, waits for it
C27_Witness ==
    /\ writerMutex
    /\ \E i, j \in DOMAIN workers :
          /\ workers[i].pc = "flushed"
          /\ CsvRow(workers[i]) \in BagToSet(csvFile[run])
          /\ workers[j].pc = "returned"
          /\ CsvRow(workers[j]) \notin BagToSet(csvFile[run] (+) writer)

\* C28: a scan leaves every record alone whose path is not the logical path
\* of a file it processed as new or changed: such a record is in the table
\* with the hash, size and timestamps the scan found.  That covers the
\* record of an excluded file, of a path no file of the tree has, of a file
\* whose processFile returned an error and of a file reported as existing.
C28_WrittenBy(sp) ==
    \E i \in DOMAIN workers :
        workers[i].storedPath = sp /\ workers[i].status \in {<<"new">>, <<"changed">>}

C28_OtherRecordsKept ==
    /\ \A sp \in DOMAIN DbBefore :
          ~C28_WrittenBy(sp) => (sp \in DOMAIN db /\ db[sp] = DbBefore[sp])
    /\ \A i \in 1..Len(nodes) :
          (HasExclusion(nodes[i].path) \/ ~Dispatchable(i)) =>
              UntouchedRecord(LogicalPath(nodes[i].path))
    /\ \A i \in DOMAIN workers :
          (workers[i].err # NoErr \/ workers[i].status = <<"existing">>) =>
              UntouchedRecord(workers[i].storedPath)

\* a scan has returned that changed the record of /m/a and left the
\* records of the excluded /m/x, of /a outside the root and of the vanished
\* /m/b as they were
C28_Witness ==
    /\ Returned
    /\ \A sp \in {RootA, FileB} :
          sp \in DOMAIN db /\ db[sp] = dbAtReturn[0][sp]
    /\ \E i \in 1..Len(nodes) :
          /\ HasExclusion(nodes[i].path)
          /\ nodes[i].kind = "regular"
          /\ LogicalPath(nodes[i].path) \in DOMAIN db
          /\ db[LogicalPath(nodes[i].path)] = dbAtReturn[0][LogicalPath(nodes[i].path)]
    /\ \E j \in DOMAIN workers :
          /\ workers[j].status = <<"changed">>
          /\ db[workers[j].storedPath] # DbBefore[workers[j].storedPath]

\* C29: the store write precedes the ledger row.  Whenever the buffer or the
\* ledger of this scan holds a row with the status new or changed, the
\* table holds the record of the row's logical path with the row's hash and
\* size, that record was written during this scan (inserted for new,
\* rewritten for changed), and the row is the row of a goroutine that has
\* passed its Write and reports that status, hash and size.
C29_WriteBeforeRow ==
    \A r \in BagToSet(csvFile[run] (+) writer) :
        r[4] \in {<<"new">>, <<"changed">>} =>
            /\ r[1] \in DOMAIN db
            /\ db[r[1]].hash = r[2]
            /\ ToString(db[r[1]].size) = r[3]
            /\ r[4] = <<"new">> => r[1] \notin DOMAIN DbBefore
            /\ r[4] = <<"changed">> =>
                  /\ r[1] \in DOMAIN DbBefore
                  /\ db[r[1]] # DbBefore[r[1]]
            /\ \E i \in DOMAIN workers :
                  LET w == workers[i] IN
                  /\ AfterWrite(w)
                  /\ w.storedPath = r[1]
                  /\ w.status = r[4]
                  /\ w.hash = r[2]
                  /\ ToString(w.size) = r[3]

\* a goroutine has just written the row of a new file into the buffer, not
\* flushed yet, and the record is in the table
C29_Witness ==
    \E i \in DOMAIN workers :
        LET w == workers[i] IN
        /\ w.pc = "written"
        /\ w.status = <<"new">>
        /\ <<w.storedPath, w.hash, ToString(w.size), <<"new">>>> \in BagToSet(writer)
        /\ w.storedPath \in DOMAIN db
        /\ w.storedPath \notin DOMAIN DbBefore

\* C30: a goroutine gives back its semaphore slot and signals the wait group
\* last.  One that has received from sem has called Write once, its row is
\* flushed into the ledger file (unless that Write failed) and it does not
\* hold the mutex; and from its start to its Unlock, through processFile
\* with every retry sleep and through the wait for the mutex, it holds its
\* slot and is counted by the wait group: sem holds one token for each such
\* goroutine, wg counts those and the ones between <-sem and wg.Done().
BeforeRelease ==
    {"start", "lookup", "hashNew", "hashChanged", "insert", "update",
     "returned", "locked", "written", "flushed", "unlocked"}

C30_ReleaseLast ==
    /\ \A i \in DOMAIN workers :
          LET w == workers[i] IN
          /\ w.pc \in BeforeRelease \cup {"released", "done"}
          /\ w.pc \notin BeforeRelease =>
                /\ w.writes = 1
                /\ w.writeErr \/ CsvRow(w) \in BagToSet(csvFile[run])
                /\ writerMutex => \E j \in DOMAIN workers \ {i} : InCriticalSection(j)
    /\ sem = Cardinality({i \in DOMAIN workers : workers[i].pc \in BeforeRelease})
    /\ wg = Cardinality({i \in DOMAIN workers :
                            workers[i].pc \in BeforeRelease \cup {"released"}})

\* one goroutine sleeps between two attempts of its INSERT, holding its
\* slot, while the other has received from sem and not yet called wg.Done()
C30_Witness ==
    /\ faults = 1
    /\ now > 1
    /\ sem = 1
    /\ wg = 2
    /\ \E i, j \in DOMAIN workers :
          /\ workers[i].pc = "insert"
          /\ workers[j].pc = "released"
          /\ CsvRow(workers[j]) \in BagToSet(csvFile[run])

\* the walker waits to send on the full semaphore
C31_WalkerBlocked == mainPc = "walking" /\ pending # <<>> /\ sem = SemCap

\* C31: the scan cannot get stuck, as long as the store and the files
\* answer.  When the walker waits to send on a full semaphore, some
\* goroutine that holds a slot can take a step; whenever the mutex is held,
\* its holder is between Lock and Unlock and can go on to give back the
\* mutex and its slot without waiting for anything; and as long as
\* processDirectory has not returned, the walker or a goroutine can move.
C31_DeadlockFree ==
    /\ C31_WalkerBlocked =>
          \E i \in DOMAIN workers :
              HoldsSlot(i) /\ ENABLED (GoroutineLock(i) \/ GoroutineLeave(i))
    /\ writerMutex =>
          \E i \in DOMAIN workers :
              workers[i].pc = "locked" /\ ENABLED GoroutineLeave(i)
    /\ mainPc \in {"walking", "waiting"} => ENABLED NextLockPool

\* the walker waits to send on the full semaphore while one goroutine holds
\* the mutex and the seven others are in processFile or wait for the mutex
C31_Witness ==
    /\ C31_WalkerBlocked
    /\ writerMutex
    /\ Cardinality({i \in DOMAIN workers : workers[i].pc = "locked"}) = 1
    /\ Cardinality({i \in DOMAIN workers : workers[i].pc = "start"}) = SemCap - 1

\* C32: once processDirectory has returned, nothing is held any more, on the
\* error paths as on the others: the semaphore holds no token, writerMutex
\* is unlocked, the wait group is at zero, and every goroutine the walk
\* started has run its deferred calls to the end, whether its processFile
\* failed, its Write failed, or the walk met an unreadable entry.
C32_AllGivenBack ==
    Returned =>
        /\ sem = 0
        /\ ~writerMutex
        /\ wg = 0
        /\ \A i \in DOMAIN workers : ~HoldsSlot(i) /\ workers[i].pc = "done"

\* processDirectory has returned from a scan in which the walk met an
\* unreadable entry and the one goroutine's processFile failed
C32_Witness ==
    /\ mainPc = "returned"
    /\ \E n \in DOMAIN nodes : nodes[n].walkErr /\ n < walkIdx
    /\ \E i \in DOMAIN workers :
          /\ workers[i].err # NoErr
          /\ workers[i].writes = 1

\* C38: a retry of the INSERT or UPDATE sends again what processFile computed
\* before the first attempt.  While a goroutine is inside insertFileRecord or
\* updateFileRecord its logical path, hash, size and file timestamp stay as
\* they were; the failed attempt itself leaves the file system and the table
\* alone; and the attempt that succeeds stores exactly those four values,
\* with the time of that attempt as hash_calculated_timestamp.
C38_WriteStep ==
    \A i \in DOMAIN workers \cap DOMAIN workers' :
        LET w == workers[i]
            after == workers'[i]
        IN  w.pc \in {"insert", "update"} =>
                /\ after.storedPath = w.storedPath
                /\ after.hash = w.hash
                /\ after.size = w.size
                /\ after.fileTimestamp = w.fileTimestamp
                /\ (after.pc = w.pc /\ faults' # faults) => (fs' = fs /\ db' = db)
                /\ after.pc # w.pc =>
                      /\ after.pc = "returned"
                      /\ db'[w.storedPath] = DbRow(w.hash, w.size, w.fileTimestamp, now)

C38_RetrySendsTheSame == [][C38_WriteStep]_vars

\* in the first scan an INSERT that failed once has succeeded at a later
\* time, with the file timestamp the goroutine read before the first attempt
C38_Witness ==
    /\ run = 1
    /\ faults = 1
    /\ \E i \in DOMAIN workers :
          LET w == workers[i] IN
          /\ w.status = <<"new">>
          /\ w.pc = "returned"
          /\ db[w.storedPath].hash_calculated_timestamp > 1
          /\ db[w.storedPath].file_timestamp = w.fileTimestamp
          /\ w.fileTimestamp < db[w.storedPath].hash_calculated_timestamp

\* C34: an empty exclusion string excludes nothing.  A regular file the walk
\* has passed has its goroutine exactly when no non-empty string of the list
\* occurs in its path; when the list holds nothing but empty strings (no
\* --exclude at all gives the single empty string), every regular file the
\* walk has passed has its goroutine.
C34_EmptyStringExcludesNothing ==
    LET list == cfg.ExcludeStrings
        nonEmpty == {k \in 1..Len(list) : list[k] # <<>>}
        Occurs(e, path) ==
            \E from \in 0..(Len(path) - Len(e)) :
                SubSeq(path, from + 1, from + Len(e)) = e
        passed == {i \in 1..Len(nodes) :
                      i < walkIdx /\ nodes[i].kind = "regular" /\ ~nodes[i].walkErr}
    IN  /\ \A i \in passed :
              (i \in DOMAIN workers) <=>
                  (\A k \in nonEmpty : ~Occurs(list[k], nodes[i].path))
        /\ nonEmpty = {} => passed \subseteq DOMAIN workers

\* the walk is over, the list holds an empty string and a non-empty one,
\* and a regular file without the non-empty one in its path was dispatched
C34_Witness ==
    /\ mainPc \in {"waiting", "returned", "completed", "exited"}
    /\ \E k, l \in 1..Len(cfg.ExcludeStrings) :
          cfg.ExcludeStrings[k] = <<>> /\ cfg.ExcludeStrings[l] # <<>>
    /\ \E i \in DOMAIN workers :
          /\ nodes[i].kind = "regular"
          /\ ~HasExclusion(nodes[i].path)

\* C35: whether a file is skipped is decided on its physical path, before
\* the prefix is cut off.  A regular file with an exclusion string anywhere
\* in its physical path is never handed to a goroutine, also when its
\* logical path does not contain the string; and two regular files are
\* decided alike whenever their physical paths agree on containing an
\* exclusion string, whatever their logical paths are.
C35_DecidedOnPhysicalPath ==
    LET passed == {i \in 1..Len(nodes) :
                      i < walkIdx /\ nodes[i].kind = "regular" /\ ~nodes[i].walkErr}
    IN  /\ \A i \in 1..Len(nodes) :
              (HasExclusion(nodes[i].path) /\ ~HasExclusion(LogicalPath(nodes[i].path))) =>
                  /\ i \notin DOMAIN workers
                  /\ \A j \in DOMAIN workers : workers[j].path # nodes[i].path
                  /\ pending = <<>> \/ pending[1] # nodes[i].path
        /\ \A i, j \in passed :
              (HasExclusion(nodes[i].path) = HasExclusion(nodes[j].path)) =>
                  ((i \in DOMAIN workers) = (j \in DOMAIN workers))

\* the walk is over; of two regular files with the same logical path, the
\* one whose physical path holds the exclusion string inside the prefix was
\* skipped and the other one dispatched
C35_Witness ==
    /\ mainPc \in {"waiting", "returned", "completed", "exited"}
    /\ \E i, j \in 1..Len(nodes) :
          /\ nodes[i].kind = "regular"
          /\ nodes[j].kind = "regular"
          /\ LogicalPath(nodes[i].path) = LogicalPath(nodes[j].path)
          /\ HasExclusion(nodes[i].path)
          /\ ~HasExclusion(LogicalPath(nodes[i].path))
          /\ i \notin DOMAIN workers
          /\ j \in DOMAIN workers

\* processFile run alone on a file, with the table as the scan found it
C33_Alone(i) ==
    processFile(NewWorker(nodes[i].path, LogicalPath(nodes[i].path)), DbBefore, now)

\* C33: the outcome of a scan is a function of what the scan finds.  When a
\* scan of a tree with distinct logical paths has ended, nobody has changed
\* a file since it started, the store answered every lookup and every
\* append to the ledger got through, then each dispatched file has the
\* hash, size, status and error that processFile gives when run alone on
\* the files and the table as the scan found them; the table holds for its
\* path that hash and size, every other record is as before, and the
\* ledger is the header and one row per file with these values: whatever
\* the order of the goroutines' steps and whichever writes to the store
\* failed and were retried.
C33_OutcomeIsAFunction ==
    (/\ mainPc \in {"completed", "exited"}
     /\ ~changedInRun
     /\ \A i \in DOMAIN workers :
           ~workers[i].writeErr /\ workers[i].err # ErrQuery(workers[i].storedPath, ErrConnection))
    =>
        LET files == {i \in 1..Len(nodes) :
                         /\ nodes[i].kind = "regular"
                         /\ ~nodes[i].walkErr
                         /\ ~HasExclusion(nodes[i].path)}
        IN  /\ DOMAIN workers = files
            /\ \A i \in files :
                  LET w == workers[i]
                      alone == C33_Alone(i)
                  IN  /\ w.hash = alone.w.hash
                      /\ w.size = alone.w.size
                      /\ w.status = alone.w.status
                      /\ w.err = alone.w.err
                      /\ (w.storedPath \in DOMAIN db) = (w.storedPath \in DOMAIN alone.db)
                      /\ w.storedPath \in DOMAIN db =>
                            /\ db[w.storedPath].hash = alone.db[w.storedPath].hash
                            /\ db[w.storedPath].size = alone.db[w.storedPath].size
            /\ \A p \in (DOMAIN db \cup DOMAIN DbBefore) \ {LogicalPath(nodes[i].path) : i \in files} :
                  UntouchedRecord(p)
            /\ BagToSet(csvFile[run]) = {CsvHeader} \cup {CsvRow(C33_Alone(i).w) : i \in files}
            /\ \A r \in BagToSet(csvFile[run]) : CopiesIn(r, csvFile[run]) = 1

\* a scan of two files has ended in which a write to the store failed and
\* was retried; one file was new and the other one was on record
C33_Witness ==
    /\ mainPc = "exited"
    /\ ~changedInRun
    /\ faults = 1
    /\ Cardinality(DOMAIN workers) = 2
    /\ \A i \in DOMAIN workers : ~workers[i].writeErr /\ workers[i].err = NoErr
    /\ \E i, j \in DOMAIN workers :
          /\ workers[i].status = <<"new">>
          /\ workers[j].status # <<"new">>
          /\ db[workers[i].storedPath].hash_calculated_timestamp
                > DbBefore[workers[j].storedPath].hash_calculated_timestamp + 1

\* C36: in the variant, a file whose size differs from the size on record
\* is reported "changed", and the hash the goroutine reports and the hash
\* and size the record then holds are the SHA-256 of what the file holds
\* now and its length.
C36_ChangedHashOfNewContent ==
    \A i \in DOMAIN workers :
        LET w == workers[i]
            content == fs[w.path].content
        IN  /\ (/\ w.pc \notin {"start", "lookup", "update"}
                /\ w.err = NoErr
                /\ w.storedPath \in DOMAIN dbAtReturn[0]
                /\ dbAtReturn[0][w.storedPath].size # Len(content)) =>
                   w.status = <<"changed">>
            /\ w.status = <<"changed">> =>
                  /\ w.hash = <<"sha256">> \o content
                  /\ db[w.storedPath].hash = <<"sha256">> \o content
                  /\ db[w.storedPath].size = Len(content)

\* C37: in the variant, at most one goroutine is inside writer.Write at any
\* time, and when completion has been logged every row a goroutine wrote
\* is in the output file and none waits in the writer's buffer.
C37_ExclusiveAndFlushed ==
    /\ Cardinality(InWrite) <= 1
    /\ mainPc = "completed" =>
          /\ writer = EmptyBag
          /\ \A i \in DOMAIN workers :
                workers[i].writes = 1 => RowsOf(csvFile[run], workers[i].storedPath) # {}

====
